---------------------------- MODULE Spec2Model ----------------------------
(***************************************************************************)
(* AutoTruth: the Lifecycle Transparency Score pipeline (engine/*.py) and  *)
(* the Flask handlers of app.py.                                           *)
(*                                                                         *)
(* Numbers.  Every Python float is held as an integer number of            *)
(* thousandths (50.0 is 50000).  round(x, k) is RoundChoices: the nearest  *)
(* multiple of the step, and BOTH neighbours when x lies exactly half way  *)
(* between them, because the direction Python takes there depends on the   *)
(* binary representation of the float (round(50.05, 1) = 50.0,             *)
(* round(50.15, 1) = 50.1).                                                *)
(*                                                                         *)
(* Objects.  Python dicts that are shared by reference (company records    *)
(* and claim records) live in heap, a sequence of objects; a reference is  *)
(* an index into it.  A dict is a function from its keys to its values.    *)
(***************************************************************************)
EXTENDS Integers, Sequences, FiniteSets, TLC

VARIABLES
    heap,          \* the company and claim dicts alive between two steps
    lts_pc,        \* SpecLts: "idle" before the call of compute_lts, "done" after
    lts_input,     \* SpecLts: the company_data value handed to compute_lts
    lts_result,    \* SpecLts: the serialised return value of compute_lts
    cl_pc,         \* SpecClassify: "idle" before the call of classify_claim, "done" after
    cl_text,       \* SpecClassify: the sentence handed to classify_claim
    cl_result,     \* SpecClassify: the dict classify_claim returned
    dom_pc,        \* SpecDomain: "idle" before the call of _detect_ev_domain, "done" after
    dom_input,     \* SpecDomain: its arguments, [text, filename]
    dom_result,    \* SpecDomain: the dict it returned
    csv_file,      \* SpecApp: the CSV dataset on disk, [exists, rows]
    csv_cache,     \* SpecApp: the lru_cache of _load_companies_from_csv
    app_loading,   \* SpecApp: the number of worker threads inside the CSV loader
    app_response,  \* SpecApp: the response sent last, with its request
    app_loaded,    \* SpecApp: what load_companies returned to that request
    pdf_pc,        \* SpecPdf: the statement of api_analyze_pdf reached
    pdf_upload,    \* SpecPdf: the multipart upload of the request
    pdf_locals,    \* SpecPdf: the local variables of api_analyze_pdf
    pdf_calls,     \* SpecPdf: the calls the request has made so far, in order
    pdf_response,  \* SpecPdf: the response sent
    eng_pc,        \* SpecEngine: "idle" before the call of an engine function, "done" after
    eng_call,      \* SpecEngine: the function called and its arguments, [fn, args]
    eng_result     \* SpecEngine: the value it returned

vars == <<heap, lts_pc, lts_input, lts_result, cl_pc, cl_text, cl_result,
          dom_pc, dom_input, dom_result,
          csv_file, csv_cache, app_loading, app_response, app_loaded,
          pdf_pc, pdf_upload, pdf_locals, pdf_calls, pdf_response,
          eng_pc, eng_call, eng_result>>

lts_vars == <<heap, lts_pc, lts_input, lts_result>>

cl_vars == <<cl_pc, cl_text, cl_result>>

dom_vars == <<dom_pc, dom_input, dom_result>>

app_vars == <<csv_file, csv_cache, app_loading, app_response, app_loaded>>

pdf_vars == <<pdf_pc, pdf_upload, pdf_locals, pdf_calls, pdf_response>>

eng_vars == <<eng_pc, eng_call, eng_result>>

-----------------------------------------------------------------------------
(* Generic helpers *)

Units(x) == x * 1000

\* None
PyNone == "<None>"

Min(a, b) == IF a < b THEN a ELSE b

Max(a, b) == IF a > b THEN a ELSE b

\* dict.get(k, default)
Get(d, k, default) == IF k \in DOMAIN d THEN d[k] ELSE default

\* d[k] = v on a dict value
Put(d, k, v) == [x \in DOMAIN d \cup {k} |-> IF x = k THEN v ELSE d[x]]

RECURSIVE SumSeq(_)
SumSeq(s) == IF s = <<>> THEN 0 ELSE Head(s) + SumSeq(Tail(s))

\* the dicts over a set of keys whose value at k is one of S[k]
RECURSIVE DictChoicesOver(_, _)
DictChoicesOver(S, keys) ==
    IF keys = {} THEN {<<>>}
    ELSE LET k == CHOOSE x \in keys : TRUE
         IN  {Put(f, k, v) : f \in DictChoicesOver(S, keys \ {k}), v \in S[k]}

\* round(n/d, digits) with the result a multiple of step (in thousandths):
\* the candidates Python's round can return for the real number n/d.
RoundChoices(n, d, step) ==
    LET q  == n \div (d * step)
        r2 == 2 * (n - q * d * step)
    IN  IF r2 < d * step THEN {q * step}
        ELSE IF r2 > d * step THEN {(q + 1) * step}
        ELSE {q * step, (q + 1) * step}

-----------------------------------------------------------------------------
(* Text: str.lower() and the `in` operator on strings *)

LowerChar(c) ==
    CASE c = "A" -> "a" [] c = "B" -> "b" [] c = "C" -> "c" [] c = "D" -> "d"
      [] c = "E" -> "e" [] c = "F" -> "f" [] c = "G" -> "g" [] c = "H" -> "h"
      [] c = "I" -> "i" [] c = "J" -> "j" [] c = "K" -> "k" [] c = "L" -> "l"
      [] c = "M" -> "m" [] c = "N" -> "n" [] c = "O" -> "o" [] c = "P" -> "p"
      [] c = "Q" -> "q" [] c = "R" -> "r" [] c = "S" -> "s" [] c = "T" -> "t"
      [] c = "U" -> "u" [] c = "V" -> "v" [] c = "W" -> "w" [] c = "X" -> "x"
      [] c = "Y" -> "y" [] c = "Z" -> "z" [] OTHER -> c

\* s.lower(), character by character (the halves keep the recursion shallow)
RECURSIVE Lower(_)
Lower(s) ==
    IF Len(s) = 0 THEN ""
    ELSE IF Len(s) = 1 THEN LowerChar(s)
    ELSE Lower(SubSeq(s, 1, Len(s) \div 2)) \o Lower(SubSeq(s, Len(s) \div 2 + 1, Len(s)))

\* p in t
Contains(t, p) ==
    \E i \in 1..(Len(t) - Len(p) + 1) : SubSeq(t, i, i + Len(p) - 1) = p

\* the number of entries of a list of phrases that occur in t
CountHits(t, phrases) ==
    Cardinality({i \in DOMAIN phrases : Contains(t, phrases[i])})

-----------------------------------------------------------------------------
(* Regular expressions: the fragment of Python's re that NUMERIC_PATTERNS   *)
(* uses.  A pattern is a tree; Ends(re, t, i) is the set of positions just  *)
(* after a match of re that starts at position i of t.                      *)

Lit(str)  == [op |-> "lit", s |-> str]

Digit     == [op |-> "digit"]

Space     == [op |-> "space"]

Cat(list) == [op |-> "cat", xs |-> list]

Alt(list) == [op |-> "alt", xs |-> list]

Star(re)  == [op |-> "star", x |-> re]

Plus(re)  == [op |-> "plus", x |-> re]

Opt(re)   == [op |-> "opt", x |-> re]

\* \d
IsDigit(c) == c \in {"0", "1", "2", "3", "4", "5", "6", "7", "8", "9"}

\* \s
IsSpace(c) == c \in {" ", "\t", "\n", "\r", "\f"}

RECURSIVE Ends(_, _, _)
RECURSIVE EndsCat(_, _, _)
RECURSIVE EndsStar(_, _, _)

Ends(re, t, i) ==
    CASE re.op = "lit" ->
           IF i + Len(re.s) - 1 <= Len(t) /\ SubSeq(t, i, i + Len(re.s) - 1) = re.s
           THEN {i + Len(re.s)} ELSE {}
      [] re.op = "digit" ->
           IF i <= Len(t) /\ IsDigit(SubSeq(t, i, i)) THEN {i + 1} ELSE {}
      [] re.op = "space" ->
           IF i <= Len(t) /\ IsSpace(SubSeq(t, i, i)) THEN {i + 1} ELSE {}
      [] re.op = "cat"  -> EndsCat(re.xs, t, {i})
      [] re.op = "alt"  -> UNION {Ends(re.xs[k], t, i) : k \in DOMAIN re.xs}
      [] re.op = "opt"  -> {i} \cup Ends(re.x, t, i)
      [] re.op = "star" -> EndsStar(re.x, t, {i})
      [] re.op = "plus" -> EndsStar(re.x, t, Ends(re.x, t, i))

EndsCat(xs, t, from) ==
    IF xs = <<>> \/ from = {} THEN from
    ELSE EndsCat(Tail(xs), t, UNION {Ends(Head(xs), t, j) : j \in from})

EndsStar(re, t, from) ==
    LET more == from \cup UNION {Ends(re, t, j) : j \in from}
    IN  IF more = from THEN from ELSE EndsStar(re, t, more)

\* re.search(pattern, text, re.IGNORECASE); the pattern's literals are lower case
Search(re, text) ==
    LET t == Lower(text)
    IN  \E i \in 1..(Len(t) + 1) : Ends(re, t, i) # {}

-----------------------------------------------------------------------------
(* engine/lifecycle_scorer.py *)

PILLARS ==
    <<"raw_materials", "manufacturing", "supply_chain",
      "use_phase", "end_of_life", "offsets">>

\* weights in thousandths
PILLAR_WEIGHTS ==
    [raw_materials |-> 200, manufacturing |-> 200, supply_chain |-> 150,
     use_phase |-> 200, end_of_life |-> 150, offsets |-> 100]

\* mutant: the scores are added without their weights
compute_weighted_score_unweighted(pillar_scores) ==
    RoundChoices(
        SumSeq([i \in 1..Len(PILLARS) |-> Get(pillar_scores, PILLARS[i], 0) * 1000]),
        1000, 10)

\* the candidates of round(sum(score * weight), 2), in thousandths
compute_weighted_score(pillar_scores) ==
    RoundChoices(
        SumSeq([i \in 1..Len(PILLARS) |->
                  Get(pillar_scores, PILLARS[i], 0) * PILLAR_WEIGHTS[PILLARS[i]]]),
        1000, 10)

PILLAR_LABELS ==
    [raw_materials |-> "Raw Material Extraction",
     manufacturing |-> "Manufacturing & Energy",
     supply_chain |-> "Supply Chain (Scope 3)",
     use_phase |-> "Use Phase (Grid Carbon)",
     end_of_life |-> "Battery End-of-Life",
     offsets |-> "Offset Strategy"]

\* mutant: a pillar that has not lost ground has improved
drift_trend_from_zero(cur, prev) ==
    IF cur - prev >= 0 THEN {"improved"} ELSE {"declined"}

\* the trends "improved" if delta > 2 else ("declined" if delta < -2 else
\* "stable") can give for delta = cur - prev.  The float difference of two
\* numbers that are not binary fractions may fall on either side of a bound
\* their decimal difference meets exactly.
drift_trend(cur, prev) ==
    LET exact == cur % 125 = 0 /\ prev % 125 = 0
    IN  IF cur - prev > Units(2) THEN {"improved"}
        ELSE IF cur - prev < Units(-2) THEN {"declined"}
        ELSE IF cur - prev = Units(2) /\ ~exact THEN {"stable", "improved"}
        ELSE IF cur - prev = Units(-2) /\ ~exact THEN {"stable", "declined"}
        ELSE {"stable"}

\* compute_drift: the dicts it can return
compute_drift(current, previous) ==
    DictChoicesOver(
        [p \in DOMAIN PILLAR_WEIGHTS |->
           {[current |-> Get(current, p, 0), previous |-> Get(previous, p, 0),
             delta |-> d, trend |-> t] :
              d \in RoundChoices(Get(current, p, 0) - Get(previous, p, 0), 1, 100),
              t \in drift_trend(Get(current, p, 0), Get(previous, p, 0))}],
        DOMAIN PILLAR_WEIGHTS)

-----------------------------------------------------------------------------
(* engine/offset_detector.py *)

OFFSET_THRESHOLD == 30

QUALITY_SCORES ==
    [t \in {"Gold Standard", "VCS", "Unverified", "None"} |->
        CASE t = "Gold Standard" -> 90
          [] t = "VCS" -> 65
          [] t = "Unverified" -> 25
          [] t = "None" -> 100]

\* 1.0, 1.5 or 2.5, in thousandths
quality_multiplier(quality_score) ==
    IF quality_score >= 80 THEN 1000
    ELSE IF quality_score >= 60 THEN 1500 ELSE 2500

\* mutant: the tier "None" is penalised as any other tier
dependency_penalty_of_any_tier(offset_dependency_pct, offset_quality) ==
    LET quality_score == Get(QUALITY_SCORES, offset_quality, 25)
        excess == offset_dependency_pct - Units(OFFSET_THRESHOLD)
    IN  IF offset_dependency_pct > Units(OFFSET_THRESHOLD)
        THEN {Min(p, Units(20)) :
                p \in RoundChoices(excess * quality_multiplier(quality_score) * 3,
                                   10 * 1000, 100)}
        ELSE {0}

\* the candidates of dependency_penalty, in thousandths
dependency_penalty(offset_dependency_pct, offset_quality) ==
    LET quality_score == Get(QUALITY_SCORES, offset_quality, 25)
        excess == offset_dependency_pct - Units(OFFSET_THRESHOLD)
    IN  IF offset_quality = "None" THEN {0}
        ELSE IF offset_dependency_pct > Units(OFFSET_THRESHOLD)
        THEN {Min(p, Units(20)) :
                p \in RoundChoices(excess * quality_multiplier(quality_score) * 3,
                                   10 * 1000, 100)}
        ELSE {0}

\* mutant: the rule for HIGH is tried first
offset_risk_high_first(offset_dependency_pct, offset_quality) ==
    LET quality_score == Get(QUALITY_SCORES, offset_quality, 25)
    IN  IF offset_quality = "Unverified" \/ offset_dependency_pct > Units(50)
        THEN "HIGH"
        ELSE IF offset_quality = "None"
                \/ (offset_dependency_pct < Units(15) /\ quality_score >= 65)
        THEN "LOW"
        ELSE IF offset_dependency_pct < Units(OFFSET_THRESHOLD) /\ quality_score >= 65
        THEN "MODERATE"
        ELSE "MODERATE"

offset_risk(offset_dependency_pct, offset_quality) ==
    LET quality_score == Get(QUALITY_SCORES, offset_quality, 25)
    IN  IF offset_quality = "None"
           \/ (offset_dependency_pct < Units(15) /\ quality_score >= 65)
        THEN "LOW"
        ELSE IF offset_dependency_pct < Units(OFFSET_THRESHOLD) /\ quality_score >= 65
        THEN "MODERATE"
        ELSE IF offset_quality = "Unverified" \/ offset_dependency_pct > Units(50)
        THEN "HIGH"
        ELSE "MODERATE"

\* the set of dicts analyze_offsets can return
analyze_offsets(offset_dependency_pct, offset_quality) ==
    {[offset_dependency_pct |-> offset_dependency_pct,
      offset_quality        |-> offset_quality,
      quality_score         |-> Get(QUALITY_SCORES, offset_quality, 25),
      dependency_penalty    |-> p,
      risk_level            |-> offset_risk(offset_dependency_pct, offset_quality),
      threshold             |-> OFFSET_THRESHOLD,
      exceeds_threshold     |-> (offset_dependency_pct > Units(OFFSET_THRESHOLD)
                                 /\ offset_quality # "None")] :
        p \in dependency_penalty(offset_dependency_pct, offset_quality)}

-----------------------------------------------------------------------------
(* engine/nlp_engine.py: classify_claim *)

Number == Cat(<<Plus(Digit), Opt(Lit(".")), Star(Digit)>>)

NUMERIC_PATTERNS ==
    <<Cat(<<Number, Star(Space), Lit("%")>>),
      Cat(<<Number, Star(Space),
            Alt(<<Cat(<<Lit("tonne"), Opt(Lit("s"))>>),
                  Cat(<<Lit("ton"), Opt(Lit("s"))>>),
                  Lit("kg"), Lit("kwh"), Lit("mwh"), Lit("gwh"), Lit("gco2"),
                  Lit("km"), Lit("mi"), Lit("g/km")>>)>>),
      Cat(<<Alt(<<Lit("reduced"), Lit("decreased"), Lit("improved"),
                  Lit("increased"), Lit("achieved"), Lit("recovered")>>),
            Plus(Space), Lit("by"), Plus(Space), Plus(Digit)>>),
      Cat(<<Plus(Digit), Star(Space),
            Alt(<<Lit("million"), Lit("billion"), Lit("thousand")>>)>>),
      Cat(<<Alt(<<Lit("zero"), Lit("100%")>>), Plus(Space),
            Alt(<<Lit("cobalt"), Lit("offset"), Lit("renewable"), Lit("recycl")>>)>>)>>

VAGUE_PHRASES ==
    <<"committed to", "strives to", "works toward", "we believe", "eco-friendly",
      "sustainable future", "green", "responsible sourcing", "better for the planet",
      "environmentally friendly", "we aim", "we aspire", "under assessment",
      "being established", "plans to", "intends to", "dedicated to", "passionate about",
      "world-class", "best-in-class", "industry-leading", "cutting-edge">>

OFFSET_PHRASES ==
    <<"carbon neutral", "carbon offset", "offset", "carbon credit", "net zero via",
      "REC", "renewable energy certificate", "forest conservation", "nature-based",
      "carbon removal", "inset", "compensate", "carbon-neutral">>

OFFSET_QUALITY_MAP ==
    <<[key |-> "gold standard",                val |-> "Gold Standard"],
      [key |-> "vcs",                          val |-> "VCS"],
      [key |-> "verified carbon standard",     val |-> "VCS"],
      [key |-> "redd+",                        val |-> "VCS"],
      [key |-> "forest conservation",          val |-> "Unverified"],
      [key |-> "rec",                          val |-> "Unverified"],
      [key |-> "renewable energy certificate", val |-> "Unverified"]>>

\* any(phrase.lower() in text_lower for phrase in OFFSET_PHRASES)
HasOffsetPhrase(text) ==
    \E i \in DOMAIN OFFSET_PHRASES : Contains(Lower(text), Lower(OFFSET_PHRASES[i]))

\* any(re.search(pattern, text, re.IGNORECASE) for pattern in NUMERIC_PATTERNS)
MatchesNumericPattern(text) ==
    \E i \in DOMAIN NUMERIC_PATTERNS : Search(NUMERIC_PATTERNS[i], text)

OffsetClassification(text) ==
    LET text_lower == Lower(text)
        keys == {i \in DOMAIN OFFSET_QUALITY_MAP :
                    Contains(text_lower, OFFSET_QUALITY_MAP[i].key)}
        quality == IF keys = {} THEN "Unverified"
                   ELSE OFFSET_QUALITY_MAP[CHOOSE i \in keys : \A j \in keys : i <= j].val
    IN  [type |-> "OFFSET_BACKED",
         offset_quality |-> quality,
         confidence |-> 850 + (IF Contains(text_lower, "gold standard")
                                  \/ Contains(text_lower, "verified")
                               THEN 100 ELSE 0)]

NumericClassification(text) ==
    [type |-> "NUMERIC",
     offset_quality |-> PyNone,
     confidence |-> 880 + (IF Contains(text, "%") THEN 70 ELSE 0)]

VagueClassification(text) ==
    [type |-> "VAGUE",
     offset_quality |-> PyNone,
     confidence |-> Min(720 + CountHits(Lower(text), VAGUE_PHRASES) * 40, 950)]

\* mutant: the numeric patterns are tried before the offset phrases
classify_claim_numeric_first(text) ==
    IF MatchesNumericPattern(text) THEN NumericClassification(text)
    ELSE IF HasOffsetPhrase(text) THEN OffsetClassification(text)
    ELSE VagueClassification(text)

classify_claim(text) ==
    IF HasOffsetPhrase(text) THEN OffsetClassification(text)
    ELSE IF MatchesNumericPattern(text) THEN NumericClassification(text)
    ELSE VagueClassification(text)

-----------------------------------------------------------------------------
(* engine/nlp_engine.py: get_claim_quality_ratio *)

CountType(claims, t) ==
    Cardinality({i \in DOMAIN claims : Get(claims[i], "type", "VAGUE") = t})

\* the set of dicts get_claim_quality_ratio can return; ratios in thousandths
get_claim_quality_ratio(claims) ==
    LET total == Len(claims)
    IN  IF total = 0
        THEN {[numeric |-> 0, vague |-> 0, offset |-> 0]}
        ELSE {[numeric |-> n, vague |-> v, offset |-> o,
               numeric_count |-> CountType(claims, "NUMERIC"),
               vague_count   |-> CountType(claims, "VAGUE"),
               offset_count  |-> CountType(claims, "OFFSET_BACKED"),
               total         |-> total] :
                n \in RoundChoices(Units(CountType(claims, "NUMERIC")), total, 1),
                v \in RoundChoices(Units(CountType(claims, "VAGUE")), total, 1),
                o \in RoundChoices(Units(CountType(claims, "OFFSET_BACKED")), total, 1)}

-----------------------------------------------------------------------------
(* engine/scoring.py *)

STANDARDS == <<"GRI", "CSRD", "SEC_Climate", "TCFD">>

\* bonuses in thousandths
REGULATORY_BONUSES ==
    [GRI |-> 2000, CSRD |-> 3000, SEC_Climate |-> 2500, TCFD |-> 1500]

RISK_TIERS ==
    <<[threshold |-> 80, label |-> "Transparent",  color |-> "#00e676"],
      [threshold |-> 60, label |-> "Moderate",     color |-> "#ffeb3b"],
      [threshold |-> 40, label |-> "Opaque",       color |-> "#ff9800"],
      [threshold |-> 0,  label |-> "Greenwashing", color |-> "#f44336"]>>

REWRITE_SUGGESTIONS ==
    <<[trigger |-> "committed to",         suggestion |-> "State the specific target"],
      [trigger |-> "strives to",           suggestion |-> "Replace with a measurable commitment and timeline."],
      [trigger |-> "eco-friendly",         suggestion |-> "Quantify the impact"],
      [trigger |-> "sustainable future",   suggestion |-> "Disclose specific emission reduction targets"],
      [trigger |-> "responsible sourcing", suggestion |-> "Reference a third-party audit or certification"],
      [trigger |-> "under assessment",     suggestion |-> "Provide current scope and expected reporting timeline."],
      [trigger |-> "being established",    suggestion |-> "Disclose the partner, target recovery rate, and projected timeline."],
      [trigger |-> "plans to",             suggestion |-> "Commit to a specific, time-bound, measurable target."],
      [trigger |-> "dedicated to",         suggestion |-> "Replace with a quantified target and accountability mechanism."]>>

suggest_rewrite(claim_text) ==
    LET claim_lower == Lower(claim_text)
        hits == {i \in DOMAIN REWRITE_SUGGESTIONS :
                    Contains(claim_lower, REWRITE_SUGGESTIONS[i].trigger)}
    IN  IF hits # {}
        THEN REWRITE_SUGGESTIONS[CHOOSE i \in hits : \A j \in hits : i <= j].suggestion
        ELSE "Replace vague language with specific metrics, timelines, and verified data sources."

RECURSIVE SumBonuses(_, _)
SumBonuses(alignment, keys) ==
    IF keys = {} THEN 0
    ELSE LET k == CHOOSE x \in keys : TRUE
         IN  (IF alignment[k] THEN Get(REGULATORY_BONUSES, k, 0) ELSE 0)
             + SumBonuses(alignment, keys \ {k})

\* mutant: the cap of 8 points forgotten
compute_regulatory_bonus_uncapped(alignment) ==
    SumBonuses(alignment, DOMAIN alignment)

compute_regulatory_bonus(alignment) ==
    Min(SumBonuses(alignment, DOMAIN alignment), Units(8))

\* mutant: a band is entered only strictly above its threshold
classify_risk_strict(score) ==
    LET hits == {i \in DOMAIN RISK_TIERS : score > Units(RISK_TIERS[i].threshold)}
    IN  IF hits # {}
        THEN LET t == RISK_TIERS[CHOOSE i \in hits : \A j \in hits : i <= j]
             IN  [label |-> t.label, color |-> t.color]
        ELSE [label |-> "Greenwashing", color |-> "#f44336"]

\* score in thousandths
classify_risk(score) ==
    LET hits == {i \in DOMAIN RISK_TIERS : score >= Units(RISK_TIERS[i].threshold)}
    IN  IF hits # {}
        THEN LET t == RISK_TIERS[CHOOSE i \in hits : \A j \in hits : i <= j]
             IN  [label |-> t.label, color |-> t.color]
        ELSE [label |-> "Greenwashing", color |-> "#f44336"]

offset_penalty_map == [LOW |-> 0, MODERATE |-> -5, HIGH |-> -15]

\* mutant: the rating is read off the rounded score
compute_investor_esg_index_rates_score(lts_score, offset_risk_level) ==
    LET adjusted == Max(0, lts_score + Units(Get(offset_penalty_map, offset_risk_level, 0)))
        Rated(score) == IF score >= Units(75) THEN "AAA"
                        ELSE IF score >= Units(60) THEN "AA"
                        ELSE IF score >= Units(45) THEN "BBB"
                        ELSE IF score >= Units(30) THEN "BB"
                        ELSE "CCC"
    IN  {[score |-> r, rating |-> Rated(r)] : r \in RoundChoices(adjusted, 1, 100)}

compute_investor_esg_index(lts_score, offset_risk_level) ==
    LET adjusted == Max(0, lts_score + Units(Get(offset_penalty_map, offset_risk_level, 0)))
        rating == IF adjusted >= Units(75) THEN "AAA"
                  ELSE IF adjusted >= Units(60) THEN "AA"
                  ELSE IF adjusted >= Units(45) THEN "BBB"
                  ELSE IF adjusted >= Units(30) THEN "BB"
                  ELSE "CCC"
    IN  {[score |-> s, rating |-> rating] : s \in RoundChoices(adjusted, 1, 100)}

grid_penalty(grid_intensity) ==
    IF grid_intensity > Units(500) THEN Units(-2)
    ELSE IF grid_intensity > Units(400) THEN Units(-1)
    ELSE 0

\* mutant: the verified flag of a NUMERIC claim is not consulted
fp_score_ignores_verified(claim, offset_quality) ==
    IF claim["type"] = "VAGUE" THEN -8
    ELSE IF claim["type"] = "OFFSET_BACKED" /\ offset_quality = "Unverified" THEN -12
    ELSE IF claim["type"] = "NUMERIC" THEN 5
    ELSE 0

\* the greenwash fingerprint of one claim dict
fp_score(claim, offset_quality) ==
    IF claim["type"] = "VAGUE" THEN -8
    ELSE IF claim["type"] = "OFFSET_BACKED" /\ offset_quality = "Unverified" THEN -12
    ELSE IF claim["type"] = "NUMERIC" /\ Get(claim, "verified", FALSE) THEN 5
    ELSE 0

\* mutant: entry = claim, the object itself
dict_copy_alias(h, ref) == [heap |-> h, ref |-> ref]

\* entry = dict(claim): a new object holding the same items
dict_copy(h, ref) == [heap |-> Append(h, h[ref]), ref |-> Len(h) + 1]

\* the loop over claims: returns the heap and the references of the entries
RECURSIVE fingerprint_claims(_, _, _, _)
fingerprint_claims(h, claims, offset_quality, acc) ==
    IF claims = <<>> THEN [heap |-> h, refs |-> acc]
    ELSE LET claim == h[Head(claims)]
             entry == dict_copy(h, Head(claims))
             rs    == IF claim["type"] = "VAGUE"
                      THEN suggest_rewrite(claim["text"]) ELSE PyNone
             h2    == [entry.heap EXCEPT ![entry.ref] =
                         Put(Put(@, "impact_score", fp_score(claim, offset_quality)),
                             "rewrite_suggestion", rs)]
         IN  fingerprint_claims(h2, Tail(claims), offset_quality, Append(acc, entry.ref))

\* raw_lts, in thousandths
raw_lts(pillar_total, claim_quality_adjustment, offset_penalty, regulatory_bonus, grid_pen) ==
    pillar_total + claim_quality_adjustment - offset_penalty + regulatory_bonus + grid_pen

\* mutant: the upper clamp forgotten
final_lts_no_upper_clamp(raw) == RoundChoices(Max(0, raw), 1, 100)

\* lts = round(max(0, min(100, raw_lts)), 1): its candidates
final_lts(raw) == RoundChoices(Max(0, Min(Units(100), raw)), 1, 100)

\* claim_quality_adjustment = round(numeric * 8 - vague * 6, 2): its candidates
claim_quality_adjustment(claim_ratio) ==
    RoundChoices(claim_ratio["numeric"] * 8 - claim_ratio["vague"] * 6, 1, 10)

\* compute_lts on the company dict at reference c of heap h: the set of
\* [heap, result] pairs it can end with (result.claims holds references).
compute_lts(h, c) ==
    LET company_data   == h[c]
        claims         == Get(company_data, "claims", <<>>)
        claim_values   == [i \in DOMAIN claims |-> h[claims[i]]]
        pillar_scores  == Get(company_data, "pillar_scores", <<>>)
        prior_year     == Get(company_data, "prior_year_scores", <<>>)
        offset_dep     == Get(company_data, "offset_dependency", 0)
        offset_quality == Get(company_data, "offset_quality", "Unverified")
        regulatory     == Get(company_data, "regulatory_alignment", <<>>)
        grid_intensity == Get(company_data, "grid_carbon_intensity_gco2_kwh", Units(400))
        regulatory_bonus == compute_regulatory_bonus(regulatory)
        grid_pen       == grid_penalty(grid_intensity)
        fp             == fingerprint_claims(h, claims, offset_quality, <<>>)
        Result(pillar_total, claim_ratio, cqa, offset_analysis, lts, esg_index, base) ==
            [heap |-> fp.heap,
             result |->
               [company |-> Get(company_data, "name", PyNone),
                model |-> Get(company_data, "model", PyNone),
                report_year |-> Get(company_data, "report_year", PyNone),
                lts |-> lts,
                risk |-> classify_risk(lts),
                breakdown |->
                  [pillar_weighted_base |-> base,
                   claim_quality_adjustment |-> cqa,
                   offset_penalty |-> -offset_analysis.dependency_penalty,
                   regulatory_bonus |-> regulatory_bonus,
                   grid_penalty |-> grid_pen],
                pillar_scores |-> pillar_scores,
                prior_year_scores |-> prior_year,
                claim_ratio |-> claim_ratio,
                claims |-> fp.refs,
                offset_analysis |-> offset_analysis,
                regulatory_alignment |-> regulatory,
                grid_carbon_intensity |-> grid_intensity,
                esg_investor_index |-> esg_index]]
    IN  UNION {
          UNION {
            UNION {
              {Result(pillar_total, claim_ratio, cqa, offset_analysis, lts, esg_index, base) :
                 esg_index \in compute_investor_esg_index(lts, offset_analysis.risk_level),
                 base \in RoundChoices(pillar_total, 1, 100)} :
              lts \in final_lts(raw_lts(pillar_total, cqa,
                                        offset_analysis.dependency_penalty,
                                        regulatory_bonus, grid_pen))} :
            cqa \in claim_quality_adjustment(claim_ratio)} :
          pillar_total \in compute_weighted_score(pillar_scores),
          claim_ratio \in get_claim_quality_ratio(claim_values),
          offset_analysis \in analyze_offsets(offset_dep, offset_quality)}

\* jsonify(result): the references of result.claims replaced by their dicts
Serialize(h, result) ==
    [result EXCEPT !.claims = [i \in DOMAIN @ |-> h[@[i]]]]

-----------------------------------------------------------------------------
(* app.py: _detect_ev_domain *)

EV_DOMAIN_TERMS ==
    [core |-> <<"electric vehicle", "electric vehicles", "ev", "battery electric",
                "plug-in", "charging", "battery pack", "kwh/100km", "kwh/100 mi">>,
     vehicle |-> <<"vehicle", "vehicles", "automotive", "car", "truck", "model y",
                   "model 3", "fleet", "drivetrain", "range">>,
     supply |-> <<"lithium", "nickel", "cobalt", "battery cell", "gigafactory",
                  "scope 3", "supplier">>]

EV_AUTO_ANCHORS ==
    <<"ev manufacturer", "electric vehicle manufacturer", "vehicle production",
      "vehicle deliveries", "vehicle sales", "passenger vehicle", "automaker",
      "automobile", "automotive oem", "battery electric vehicle", "bev">>

KNOWN_EV_COMPANIES ==
    <<"tesla", "rivian", "byd", "volkswagen", "vw", "hyundai", "kia", "ford",
      "general motors", "gm", "mercedes", "bmw", "audi", "nio", "xpeng", "lucid",
      "polestar">>

NON_EV_SIGNAL_TERMS ==
    <<"iphone", "ipad", "macbook", "mac", "apple watch", "airpods", "data center",
      "packaging", "consumer electronics">>

\* s[:n]
Prefix(s, n) == SubSeq(s, 1, Min(Len(s), n))

\* [t for t in terms if t in content]
Hits(terms, content) == SelectSeq(terms, LAMBDA t : Contains(content, t))

\* f"{filename} {text[:180000]}".lower()
DomainContent(text, filename) == Lower(filename \o " " \o Prefix(text, 180000))

ev_relevance_score(core_hits, vehicle_hits, supply_hits, anchor_hits, company_hits, non_ev_hits) ==
    (Len(core_hits) * 3) + (Len(vehicle_hits) * 2) + Len(supply_hits)
    + (Len(anchor_hits) * 4) + (Len(company_hits) * 3) - (Len(non_ev_hits) * 2)

\* mutant: the score alone decides, the anchor-or-company requirement dropped
is_ev_domain_score_only(anchor_hits, company_hits, score) == score >= 12

\* mutant: one anchor or company hit suffices, the score threshold dropped
is_ev_domain_anchor_only(anchor_hits, company_hits, score) ==
    Len(anchor_hits) >= 1 \/ Len(company_hits) >= 1

is_ev_domain(anchor_hits, company_hits, score) ==
    LET has_ev_specific_anchor == Len(anchor_hits) >= 1 \/ Len(company_hits) >= 1
    IN  has_ev_specific_anchor /\ score >= 12

_detect_ev_domain(text, filename) ==
    LET content      == DomainContent(text, filename)
        core_hits    == Hits(EV_DOMAIN_TERMS.core, content)
        vehicle_hits == Hits(EV_DOMAIN_TERMS.vehicle, content)
        supply_hits  == Hits(EV_DOMAIN_TERMS.supply, content)
        anchor_hits  == Hits(EV_AUTO_ANCHORS, content)
        company_hits == Hits(KNOWN_EV_COMPANIES, content)
        non_ev_hits  == Hits(NON_EV_SIGNAL_TERMS, content)
        score        == ev_relevance_score(core_hits, vehicle_hits, supply_hits,
                                           anchor_hits, company_hits, non_ev_hits)
        verdict      == is_ev_domain(anchor_hits, company_hits, score)
    IN  [is_ev_domain       |-> verdict,
         ev_relevance_score |-> score,
         matched_terms      |-> Prefix(core_hits \o vehicle_hits \o supply_hits
                                       \o anchor_hits \o company_hits, 12),
         non_ev_terms       |-> Prefix(non_ev_hits, 8),
         recommendation     |->
            IF verdict
            THEN "EV domain confirmed. You can continue with full EV transparency scoring."
            ELSE "This file may not be EV-focused. Re-upload an EV report or continue anyway."]

-----------------------------------------------------------------------------
(* SpecLts: compute_lts as a function of its company record *)

MaxClaims == 2

SeqsUpTo(S, n) == UNION {[1..k -> S] : k \in 0..n}

Uniform(score) == [p \in {PILLARS[i] : i \in DOMAIN PILLARS} |-> score]

PillarInputs ==
    {Uniform(0), Uniform(Units(100)), Uniform(Units(-20)),
     [supply_chain |-> Units(35), offsets |-> 77700, use_phase |-> Units(60)],
     [supply_chain |-> 35500]}

ClaimInputs ==
    {[text |-> "CO2 reduced by 45%.",
      type |-> "NUMERIC", verified |-> v, confidence |-> 950] : v \in BOOLEAN}
    \cup
    {[text |-> "Acme plans to improve.",
      type |-> "VAGUE", verified |-> v, confidence |-> 760] : v \in BOOLEAN}
    \cup
    {[text |-> "We buy carbon offsets.",
      type |-> "OFFSET_BACKED", verified |-> v, confidence |-> 850] : v \in BOOLEAN}
    \cup
    {[text |-> "Better for the planet.", type |-> "VAGUE"]}

\* <<offset_dependency, offset_quality>>
OffsetInputs ==
    {<<0, "None">>, <<Units(100), "None">>, <<Units(31), "VCS">>,
     <<Units(31), "Unverified">>, <<Units(100), "Unverified">>,
     <<Units(100), "Gold Standard">>}

RegulatoryInputs ==
    {[k \in {STANDARDS[i] : i \in DOMAIN STANDARDS} |-> FALSE],
     [k \in {STANDARDS[i] : i \in DOMAIN STANDARDS} |-> TRUE],
     [CSRD |-> TRUE, SEC_Climate |-> TRUE, GRI |-> FALSE],
     [TCFD |-> TRUE, ISO14001 |-> TRUE]}

GridInputs == {Units(400), Units(401), Units(501)}

NeutralRecord(s) ==
    [name |-> "Neutral", model |-> "n/a", report_year |-> 2024,
     claims |-> <<>>,
     pillar_scores |-> Uniform(Units(s)),
     prior_year_scores |-> Uniform(Units(s)),
     offset_dependency |-> 0,
     offset_quality |-> "None",
     regulatory_alignment |-> [k \in {STANDARDS[i] : i \in DOMAIN STANDARDS} |-> FALSE],
     grid_carbon_intensity_gco2_kwh |-> Units(300)]

CompanyInputs ==
    {[name |-> "Acme", model |-> "3 EV models", report_year |-> 2024,
      claims |-> cl, pillar_scores |-> ps, prior_year_scores |-> ps,
      offset_dependency |-> dep, offset_quality |-> q,
      regulatory_alignment |-> reg,
      grid_carbon_intensity_gco2_kwh |-> grid] :
        cl \in SeqsUpTo(ClaimInputs, MaxClaims), ps \in PillarInputs,
        <<dep, q>> \in OffsetInputs,
        reg \in RegulatoryInputs, grid \in GridInputs}
    \cup {NeutralRecord(s) : s \in 0..100}
    \cup {[name |-> "Bare"]}

\* the heap a caller holds when it passes `company`: the company dict first,
\* its claim dicts after it
BuildHeap(company) ==
    IF "claims" \in DOMAIN company
    THEN <<Put(company, "claims", [i \in DOMAIN company["claims"] |-> i + 1])>>
         \o company["claims"]
    ELSE <<company>>

\* the variables of the other specifications, at rest
ClassifyIdle == cl_pc = "off" /\ cl_text = PyNone /\ cl_result = PyNone

DomainIdle == dom_pc = "off" /\ dom_input = PyNone /\ dom_result = PyNone

AppIdle ==
    /\ csv_file = [exists |-> FALSE, rows |-> <<>>]
    /\ csv_cache = [loaded |-> FALSE, none |-> TRUE, companies |-> <<>>]
    /\ app_loading = 0
    /\ app_response = [status |-> 0]
    /\ app_loaded = <<>>

PdfIdle ==
    /\ pdf_pc = "off"
    /\ pdf_upload = PyNone
    /\ pdf_locals = <<>>
    /\ pdf_calls = <<>>
    /\ pdf_response = [status |-> 0]

EngineIdle == eng_pc = "off" /\ eng_call = PyNone /\ eng_result = PyNone

LtsInit ==
    /\ lts_input \in CompanyInputs
    /\ heap = BuildHeap(lts_input)
    /\ lts_pc = "idle"
    /\ lts_result = PyNone
    /\ ClassifyIdle
    /\ DomainIdle
    /\ AppIdle
    /\ PdfIdle
    /\ EngineIdle

\* one call of compute_lts on the company at reference 1; the caller's
\* objects stay in heap, the ones the call created live on only in the
\* serialised result
CallComputeLts ==
    /\ lts_pc = "idle"
    /\ \E out \in compute_lts(heap, 1) :
         /\ lts_result' = Serialize(out.heap, out.result)
         /\ heap' = SubSeq(out.heap, 1, Len(heap))
    /\ lts_pc' = "done"
    /\ UNCHANGED <<lts_input, cl_vars, dom_vars, app_vars, pdf_vars, eng_vars>>

LtsNext == CallComputeLts

SpecLts == LtsInit /\ [][LtsNext]_vars

-----------------------------------------------------------------------------
(* Properties of compute_lts (checked under SpecLts) *)

Abs(x) == IF x < 0 THEN -x ELSE x

\* the multiples of step nearest to the real number n/d
Nearest(n, d, step) ==
    {m \in {(n \div (d * step)) * step, ((n \div (d * step)) + 1) * step} :
        2 * Abs(m * d - n) <= d * step}

InputClaims == Get(lts_input, "claims", <<>>)

InputPillars == Get(lts_input, "pillar_scores", <<>>)

\* the raw aggregates the returned breakdown stands for: the weighted pillar
\* sum (to two decimals) plus the four other components of the breakdown
RawAggregates ==
    LET b == lts_result.breakdown
    IN  {pt + b.claim_quality_adjustment + b.offset_penalty
            + b.regulatory_bonus + b.grid_penalty :
           pt \in Nearest(
                    SumSeq([i \in 1..6 |->
                       Get(InputPillars, PILLARS[i], 0) * PILLAR_WEIGHTS[PILLARS[i]]]),
                    1000, 10)}

\* C1: for every company record the returned lts lies in [0,100]; it is
\* exactly 100 when the raw aggregate is above 100 and exactly 0 when the
\* raw aggregate is below 0.
C1_LtsClamped ==
    lts_pc = "done" =>
        /\ lts_result.lts >= 0
        /\ lts_result.lts <= Units(100)
        /\ (\E r \in RawAggregates : r > Units(100)) => lts_result.lts = Units(100)
        /\ (\E r \in RawAggregates : r < 0) => lts_result.lts = 0

\* the spec's example: every pillar 100, no vague claim, regulatory bonus 8
C1_Witness ==
    /\ lts_pc = "done"
    /\ InputPillars = Uniform(Units(100))
    /\ \A i \in DOMAIN InputClaims : InputClaims[i]["type"] # "VAGUE"
    /\ lts_result.breakdown.regulatory_bonus = Units(8)
    /\ \A r \in RawAggregates : r > Units(100)
    /\ lts_result.lts = Units(100)

\* the reference components of C2, each from the company record alone
RefRatio(t) ==
    IF Len(InputClaims) = 0 THEN {0}
    ELSE Nearest(Units(Cardinality({i \in DOMAIN InputClaims : InputClaims[i]["type"] = t})),
                 Len(InputClaims), 1)

RefClaimQuality ==
    UNION {Nearest(n * 8 - v * 6, 1, 10) : n \in RefRatio("NUMERIC"), v \in RefRatio("VAGUE")}

RefPillarTotal ==
    Nearest(SumSeq([i \in 1..6 |->
                Get(InputPillars, PILLARS[i], 0) * PILLAR_WEIGHTS[PILLARS[i]]]),
            1000, 10)

RefOffsetPenalty ==
    {oa.dependency_penalty :
        oa \in analyze_offsets(Get(lts_input, "offset_dependency", 0),
                               Get(lts_input, "offset_quality", "Unverified"))}

RefFlag(k) ==
    LET reg == Get(lts_input, "regulatory_alignment", <<>>)
    IN  k \in DOMAIN reg /\ reg[k]

RefRegulatoryBonus ==
    Min((IF RefFlag("GRI") THEN 2000 ELSE 0) + (IF RefFlag("CSRD") THEN 3000 ELSE 0)
        + (IF RefFlag("SEC_Climate") THEN 2500 ELSE 0)
        + (IF RefFlag("TCFD") THEN 1500 ELSE 0), 8000)

RefGridPenalty ==
    LET g == Get(lts_input, "grid_carbon_intensity_gco2_kwh", Units(400))
    IN  IF g > Units(500) THEN -2000 ELSE IF g > Units(400) THEN -1000 ELSE 0

RefRaw ==
    {pt + cq - op + RefRegulatoryBonus + RefGridPenalty :
        pt \in RefPillarTotal, cq \in RefClaimQuality, op \in RefOffsetPenalty}

Clamp(x) == Max(0, Min(Units(100), x))

\* C2 as stated: lts equals the clamped aggregate itself.
C2_LtsIsClampedAggregate ==
    lts_pc = "done" => \E r \in RefRaw : lts_result.lts = Clamp(r)

\* C2 (amended): lts is clamp(pillar_total + claim_quality_adjustment
\* - offset_penalty + regulatory_bonus + grid_penalty, 0, 100) rounded to one
\* decimal, with pillar_total the weighted pillar sum rounded to two decimals,
\* claim_quality_adjustment = numeric_ratio*8 - vague_ratio*6 rounded to two
\* decimals over ratios rounded to three, offset_penalty analyze_offsets'
\* dependency_penalty, regulatory_bonus the flagged standards' bonuses capped
\* at 8.0 and grid_penalty -2 above 500, -1 above 400, else 0.
C2_LtsIsRoundedClampedAggregate ==
    lts_pc = "done" =>
        /\ lts_result.lts % 100 = 0
        /\ \E r \in RefRaw : 2 * Abs(lts_result.lts - Clamp(r)) <= 100
        /\ lts_result.breakdown.regulatory_bonus = RefRegulatoryBonus
        /\ lts_result.breakdown.grid_penalty = RefGridPenalty
        /\ lts_result.breakdown.claim_quality_adjustment \in RefClaimQuality
        /\ -lts_result.breakdown.offset_penalty \in RefOffsetPenalty

\* every component is non-zero and the aggregate is strictly inside (0,100)
C2_Witness ==
    /\ lts_pc = "done"
    /\ lts_result.breakdown.claim_quality_adjustment # 0
    /\ lts_result.breakdown.offset_penalty < 0
    /\ lts_result.breakdown.regulatory_bonus = Units(8)
    /\ lts_result.breakdown.grid_penalty = Units(-2)
    /\ lts_result.lts > 0
    /\ lts_result.lts < Units(100)

\* the common pillar score of the input, in whole points (-1 when the
\* raw_materials score is absent or not a whole number of points)
NeutralScore ==
    LET v == Get(InputPillars, "raw_materials", -1000)
    IN  IF v % 1000 = 0 THEN v \div 1000 ELSE -1

IsNeutral(s) == s \in 0..100 /\ lts_input = NeutralRecord(s)

RefBand(s) ==
    IF s >= 80 THEN "Transparent"
    ELSE IF s >= 60 THEN "Moderate"
    ELSE IF s >= 40 THEN "Opaque" ELSE "Greenwashing"

\* C3: with all six pillar scores equal to an integer s in 0..100, no claims,
\* offset dependency 0, tier "None", no regulatory flag and grid intensity
\* 300, lts is s and the risk label is the first band whose threshold is
\* <= s; for s = 50 this is lts 50.0, "Opaque" and ESG rating "BBB".
C3_NeutralRecord ==
    (lts_pc = "done" /\ IsNeutral(NeutralScore)) =>
        /\ lts_result.lts = Units(NeutralScore)
        /\ lts_result.risk.label = RefBand(NeutralScore)
        /\ (NeutralScore = 50 => /\ lts_result.risk.label = "Opaque"
                                 /\ lts_result.esg_investor_index.rating = "BBB")

C3_Witness ==
    /\ lts_pc = "done"
    /\ IsNeutral(50)
    /\ lts_result.lts = Units(50)
    /\ lts_result.risk.label = "Opaque"

RefImpact(claim) ==
    IF claim["type"] = "NUMERIC" /\ "verified" \in DOMAIN claim /\ claim["verified"] THEN 5
    ELSE IF claim["type"] = "VAGUE" THEN -8
    ELSE IF claim["type"] = "OFFSET_BACKED"
            /\ Get(lts_input, "offset_quality", "Unverified") = "Unverified" THEN -12
    ELSE 0

\* C4: every returned claim carries impact_score +5 (verified NUMERIC), -8
\* (VAGUE), -12 (OFFSET_BACKED under offset quality Unverified) or 0
\* (anything else), and the returned list has the length and order of the
\* input list.
C4_ImpactScores ==
    lts_pc = "done" =>
        /\ Len(lts_result.claims) = Len(InputClaims)
        /\ \A i \in DOMAIN InputClaims :
             /\ \A k \in DOMAIN InputClaims[i] :
                    lts_result.claims[i][k] = InputClaims[i][k]
             /\ lts_result.claims[i]["impact_score"] = RefImpact(InputClaims[i])

\* two different claims, one of them an OFFSET_BACKED claim scored -12 and
\* one an unverified NUMERIC claim scored 0
C4_Witness ==
    /\ lts_pc = "done"
    /\ Len(lts_result.claims) = 2
    /\ lts_result.claims[1]["type"] = "OFFSET_BACKED"
    /\ lts_result.claims[1]["impact_score"] = -12
    /\ lts_result.claims[2]["type"] = "NUMERIC"
    /\ ~lts_result.claims[2]["verified"]
    /\ lts_result.claims[2]["impact_score"] = 0

-----------------------------------------------------------------------------
(* SpecClassify: classify_claim as a function of its sentence *)

MaxWords == 3

RECURSIVE Join(_, _)
Join(words, sep) ==
    IF Len(words) = 0 THEN ""
    ELSE IF Len(words) = 1 THEN words[1]
    ELSE Join(SubSeq(words, 1, Len(words) \div 2), sep) \o sep
         \o Join(SubSeq(words, Len(words) \div 2 + 1, Len(words)), sep)

\* the words a sentence is drawn from: offset phrases, numeric patterns,
\* vague phrases, and words that hold one of them inside
ClaimWords ==
    {"We offset", "10,000 tonnes", "of CO2", "reduced by 30", "45 %",
     "Recycling", "zero cobalt", "2 MILLION", "green", "verified"}

ClassifyTexts ==
    {Join(ws, " ") : ws \in SeqsUpTo(ClaimWords, MaxWords)}

\* the variables of SpecLts, at rest
LtsIdle ==
    /\ heap = <<>>
    /\ lts_pc = "off"
    /\ lts_input = PyNone
    /\ lts_result = PyNone

ClassifyInit ==
    /\ cl_text \in ClassifyTexts
    /\ cl_pc = "idle"
    /\ cl_result = PyNone
    /\ LtsIdle
    /\ DomainIdle
    /\ AppIdle
    /\ PdfIdle
    /\ EngineIdle

CallClassifyClaim ==
    /\ cl_pc = "idle"
    /\ cl_result' = classify_claim(cl_text)
    /\ cl_pc' = "done"
    /\ UNCHANGED <<lts_vars, cl_text, dom_vars, app_vars, pdf_vars, eng_vars>>

ClassifyNext == CallClassifyClaim

SpecClassify == ClassifyInit /\ [][ClassifyNext]_vars

\* C10: classify_claim tries the offset phrases first, then the numeric
\* patterns, then defaults to VAGUE: a sentence holding an offset phrase is
\* OFFSET_BACKED even if a numeric pattern matches it, a sentence is NUMERIC
\* only if it holds no offset phrase and matches a numeric pattern, every
\* other sentence is VAGUE, and a classification is always returned.
C10_ClassifyPriority ==
    cl_pc = "done" =>
        /\ cl_result.type \in {"OFFSET_BACKED", "NUMERIC", "VAGUE"}
        /\ HasOffsetPhrase(cl_text) => cl_result.type = "OFFSET_BACKED"
        /\ cl_result.type = "NUMERIC" =>
              ~HasOffsetPhrase(cl_text) /\ MatchesNumericPattern(cl_text)
        /\ (~HasOffsetPhrase(cl_text) /\ MatchesNumericPattern(cl_text)) =>
              cl_result.type = "NUMERIC"
        /\ (~HasOffsetPhrase(cl_text) /\ ~MatchesNumericPattern(cl_text)) =>
              cl_result.type = "VAGUE"

\* the spec's example: an offset phrase and a numeric pattern in one sentence
C10_Witness ==
    /\ cl_pc = "done"
    /\ cl_text = "We offset 10,000 tonnes of CO2"
    /\ HasOffsetPhrase(cl_text)
    /\ MatchesNumericPattern(cl_text)
    /\ cl_result.type = "OFFSET_BACKED"

-----------------------------------------------------------------------------
(* SpecDomain: _detect_ev_domain as a function of its text and file name *)

MaxDomainWords == 3

DomainWords ==
    {"Tesla", "Model 3", "electric vehicles", "charging", "automaker",
     "iPhone", "lithium", "BEV"}

DomainTexts == {Join(ws, " ") : ws \in SeqsUpTo(DomainWords, MaxDomainWords)}

DomainFilenames == {"report.pdf", "BYD-2024.pdf"}

DomainInit ==
    /\ dom_input \in [text : DomainTexts, filename : DomainFilenames]
    /\ dom_pc = "idle"
    /\ dom_result = PyNone
    /\ LtsIdle
    /\ ClassifyIdle
    /\ AppIdle
    /\ PdfIdle
    /\ EngineIdle

CallDetectEvDomain ==
    /\ dom_pc = "idle"
    /\ dom_result' = _detect_ev_domain(dom_input.text, dom_input.filename)
    /\ dom_pc' = "done"
    /\ UNCHANGED <<lts_vars, cl_vars, dom_input, app_vars, pdf_vars, eng_vars>>

DomainNext == CallDetectEvDomain

SpecDomain == DomainInit /\ [][DomainNext]_vars

-----------------------------------------------------------------------------
(* Properties of _detect_ev_domain (checked under SpecDomain) *)

DomContent == DomainContent(dom_input.text, dom_input.filename)

AnchorCount == CountHits(DomContent, EV_AUTO_ANCHORS)

CompanyCount == CountHits(DomContent, KNOWN_EV_COMPANIES)

\* 3*core + 2*vehicle + 1*supply + 4*anchor + 3*company - 2*non_ev
WeightedScore ==
    3 * CountHits(DomContent, EV_DOMAIN_TERMS.core)
    + 2 * CountHits(DomContent, EV_DOMAIN_TERMS.vehicle)
    + CountHits(DomContent, EV_DOMAIN_TERMS.supply)
    + 4 * AnchorCount + 3 * CompanyCount
    - 2 * CountHits(DomContent, NON_EV_SIGNAL_TERMS)

\* the case of C5: "Model 3" and "Tesla" occur, no anchor term does, and
\* "tesla" is the only known-company term
TeslaModel3Case ==
    /\ Contains(DomContent, "model 3")
    /\ Contains(DomContent, "tesla")
    /\ AnchorCount = 0
    /\ CompanyCount = 1

\* C5 as stated: in that case is_ev_domain is True because company_hits >= 1.
C5_TeslaModel3IsEv ==
    (dom_pc = "done" /\ TeslaModel3Case) => dom_result.is_ev_domain

\* C5 (amended): in that case is_ev_domain is True exactly when the weighted
\* score is at least 12; the company hit meets the anchor-or-company
\* requirement but "Tesla" and "Model 3" alone score 5 and give False.
C5_TeslaModel3IsEvIffScore ==
    (dom_pc = "done" /\ TeslaModel3Case) =>
        /\ dom_result.is_ev_domain = (WeightedScore >= 12)
        /\ dom_result.ev_relevance_score = WeightedScore
        /\ (dom_input.text = "Tesla Model 3" =>
                dom_result.ev_relevance_score = 5 /\ ~dom_result.is_ev_domain)

C5_Witness ==
    /\ dom_pc = "done"
    /\ TeslaModel3Case
    /\ dom_result.ev_relevance_score >= 12
    /\ dom_result.is_ev_domain

\* C6: is_ev_domain is True if and only if there is at least one anchor or
\* known-company hit and the weighted score is at least 12; with no anchor
\* and no company hit it is False whatever the score.
C6_TwoPartGate ==
    dom_pc = "done" =>
        /\ dom_result.is_ev_domain =
              ((AnchorCount >= 1 \/ CompanyCount >= 1) /\ WeightedScore >= 12)
        /\ (AnchorCount = 0 /\ CompanyCount = 0) => ~dom_result.is_ev_domain

\* a text that scores at least 12 without any anchor or company hit
C6_Witness ==
    /\ dom_pc = "done"
    /\ AnchorCount = 0
    /\ CompanyCount = 0
    /\ dom_result.ev_relevance_score >= 12
    /\ ~dom_result.is_ev_domain

-----------------------------------------------------------------------------
(* app.py: text helpers of the company builders.  Characters are the       *)
(* printable ASCII ones; numbers in CSV cells are plain decimals with at   *)
(* most three places, anything else is text float() rejects.               *)

\* the characters of codes 32..95 and 97..126, in order
ASCII ==
    [low  |-> " !\"#$%&'()*+,-./0123456789:;<=>?@ABCDEFGHIJKLMNOPQRSTUVWXYZ[\\]^_",
     high |-> "abcdefghijklmnopqrstuvwxyz{|}~"]

\* ord(ch)
Ord(c) ==
    IF \E i \in 1..Len(ASCII.low) : SubSeq(ASCII.low, i, i) = c
    THEN 31 + CHOOSE i \in 1..Len(ASCII.low) : SubSeq(ASCII.low, i, i) = c
    ELSE 96 + CHOOSE i \in 1..Len(ASCII.high) : SubSeq(ASCII.high, i, i) = c

\* ch.upper(): chr(ord(ch) - 32) for a lower-case letter
UpperChar(c) ==
    IF Ord(c) \in 97..122 THEN SubSeq(ASCII.low, Ord(c) - 63, Ord(c) - 63) ELSE c

WHITESPACE == {" ", "\t", "\n", "\r", "\f"}

RECURSIVE LStripChars(_, _)
LStripChars(s, chars) ==
    IF Len(s) > 0 /\ SubSeq(s, 1, 1) \in chars
    THEN LStripChars(SubSeq(s, 2, Len(s)), chars) ELSE s

RECURSIVE RStripChars(_, _)
RStripChars(s, chars) ==
    IF Len(s) > 0 /\ SubSeq(s, Len(s), Len(s)) \in chars
    THEN RStripChars(SubSeq(s, 1, Len(s) - 1), chars) ELSE s

\* s.strip()
Strip(s) == RStripChars(LStripChars(s, WHITESPACE), WHITESPACE)

IsSlugChar(c) == Ord(c) \in 97..122 \/ IsDigit(c)

\* re.sub(r"[^a-z0-9]+", "-", s)
RECURSIVE SubNonSlugRuns(_, _)
SubNonSlugRuns(s, in_run) ==
    IF Len(s) = 0 THEN ""
    ELSE LET c == SubSeq(s, 1, 1)
             rest == SubSeq(s, 2, Len(s))
         IN  IF IsSlugChar(c) THEN c \o SubNonSlugRuns(rest, FALSE)
             ELSE (IF in_run THEN "" ELSE "-") \o SubNonSlugRuns(rest, TRUE)

_slugify(text) ==
    LET t == SubNonSlugRuns(Lower(text), FALSE)
    IN  RStripChars(LStripChars(t, {"-"}), {"-"})

\* a < b on str
RECURSIVE StrLess(_, _)
StrLess(a, b) ==
    IF Len(a) = 0 THEN Len(b) > 0
    ELSE IF Len(b) = 0 THEN FALSE
    ELSE IF SubSeq(a, 1, 1) = SubSeq(b, 1, 1)
         THEN StrLess(SubSeq(a, 2, Len(a)), SubSeq(b, 2, Len(b)))
         ELSE Ord(SubSeq(a, 1, 1)) < Ord(SubSeq(b, 1, 1))

\* sorted(S) for a set of str
RECURSIVE SortedSet(_)
SortedSet(S) ==
    IF S = {} THEN <<>>
    ELSE LET m == CHOOSE x \in S : \A y \in S \ {x} : StrLess(x, y)
         IN  <<m>> \o SortedSet(S \ {m})

\* sorted(xs) for a list of str
RECURSIVE SortedList(_)
SortedList(xs) ==
    IF xs = <<>> THEN <<>>
    ELSE LET rest == SortedList(Tail(xs))
             k == Cardinality({i \in DOMAIN rest : StrLess(rest[i], Head(xs))})
         IN  SubSeq(rest, 1, k) \o <<Head(xs)>> \o SubSeq(rest, k + 1, Len(rest))

\* s.split(sep) for a one-character sep
SplitOn(s, sep) ==
    LET Parts(at) ==
            LET Cut(k) == IF k = 0 THEN 0
                          ELSE IF k > Cardinality(at) THEN Len(s) + 1
                          ELSE CHOOSE i \in at : Cardinality({j \in at : j <= i}) = k
            IN  [k \in 1..(Cardinality(at) + 1) |-> SubSeq(s, Cut(k - 1) + 1, Cut(k) - 1)]
    IN  Parts({i \in 1..Len(s) : SubSeq(s, i, i) = sep})

\* float(s): [ok, v], v in thousandths
ParseFloat(s) ==
    LET AllDigits(x) == \A i \in 1..Len(x) : IsDigit(SubSeq(x, i, i))
        RECURSIVE DigitsValue(_)
        DigitsValue(x) ==
            IF Len(x) = 0 THEN 0
            ELSE DigitsValue(SubSeq(x, 1, Len(x) - 1)) * 10
                 + (Ord(SubSeq(x, Len(x), Len(x))) - 48)
        \* the integer part ip and the fraction part fp of a number of sign sgn
        Parts(ip, fp, sgn) ==
            IF AllDigits(ip) /\ AllDigits(fp) /\ Len(ip) + Len(fp) > 0 /\ Len(fp) <= 3
            THEN [ok |-> TRUE,
                  v |-> sgn * (DigitsValue(ip) * 1000 + DigitsValue(SubSeq(fp \o "000", 1, 3)))]
            ELSE [ok |-> FALSE, v |-> 0]
        Unsigned(body, sgn) ==
            LET dots == {i \in 1..Len(body) : SubSeq(body, i, i) = "."}
            IN  IF dots = {} THEN Parts(body, "", sgn)
                ELSE Parts(SubSeq(body, 1, (CHOOSE i \in dots : \A j \in dots : i <= j) - 1),
                           SubSeq(body, (CHOOSE i \in dots : \A j \in dots : i <= j) + 1,
                                  Len(body)),
                           sgn)
        Signed(t) ==
            IF Len(t) > 0 /\ SubSeq(t, 1, 1) = "-" THEN Unsigned(SubSeq(t, 2, Len(t)), -1)
            ELSE IF Len(t) > 0 /\ SubSeq(t, 1, 1) = "+" THEN Unsigned(SubSeq(t, 2, Len(t)), 1)
            ELSE Unsigned(t, 1)
    IN  Signed(Strip(s))

_safe_float(value, default) ==
    LET p == ParseFloat(value) IN IF p.ok THEN p.v ELSE default

\* int(x): truncation towards zero
PyInt(v) == IF v >= 0 THEN v \div 1000 ELSE -((-v) \div 1000)

\* f"{n/d:.kf}": the texts Python can produce, step 1000 for :.0f, 100 for
\* :.1f, 10 for :.2f
FormatFixed(n, d, step) ==
    LET FixedString(r) ==
            LET a == IF r < 0 THEN -r ELSE r
                f == (a % 1000) \div step
            IN  (IF n < 0 THEN "-" ELSE "")
                \o ToString(a \div 1000)
                \o (IF step = 1000 THEN ""
                    ELSE IF step = 10 /\ f < 10 THEN ".0" \o ToString(f)
                    ELSE "." \o ToString(f))
    IN  {FixedString(r) : r \in RoundChoices(n, d, step)}

\* _clamp(n/d, low, high): its candidates
_clamp(n, d, low, high) ==
    {Max(low, Min(high, r)) : r \in RoundChoices(n, d, 100)}

_logo_for_make(make) ==
    LET first == SubSeq(Strip(IF make = "" THEN "E" ELSE make), 1, 1)
    IN  IF Len(first) > 0 THEN UpperChar(first) ELSE "E"

RECURSIVE SumOrd(_)
SumOrd(text) ==
    IF Len(text) = 0 THEN 0
    ELSE Ord(SubSeq(text, 1, 1)) + SumOrd(SubSeq(text, 2, Len(text)))

_hash_bucket(text, mod) == SumOrd(text) % mod

-----------------------------------------------------------------------------
(* app.py: company records built from the rows of the CSV dataset.  A row  *)
(* is a dict from column name to cell text; rows, claims and companies are *)
(* heap objects.  An average is kept as <<numerator, denominator>>.        *)

RECURSIVE MaxSeq(_)
MaxSeq(s) == IF Len(s) = 1 THEN s[1] ELSE Max(Head(s), MaxSeq(Tail(s)))

RECURSIVE MinSeq(_)
MinSeq(s) == IF Len(s) = 1 THEN s[1] ELSE Min(Head(s), MinSeq(Tail(s)))

_build_claims(make, avg_eff, avg_motor, avg_recharge) ==
    {<<[text |-> make \o " portfolio average energy efficiency is " \o eff \o " km/kWh.",
        type |-> "NUMERIC", pillar |-> "use_phase", verified |-> TRUE, confidence |-> 920],
       [text |-> "Average electric motor output is " \o motor \o " kW across listed models.",
        type |-> "NUMERIC", pillar |-> "manufacturing", verified |-> TRUE, confidence |-> 890],
       [text |-> "Average recharge time is " \o recharge \o " hours for analyzed models.",
        type |-> "NUMERIC", pillar |-> "use_phase", verified |-> TRUE, confidence |-> 880],
       [text |-> "The company is committed to continuous sustainability improvements across the value chain.",
        type |-> "VAGUE", pillar |-> "supply_chain", verified |-> FALSE, confidence |-> 780],
       [text |-> "Offset and renewable energy credit strategy supports residual emission balancing.",
        type |-> "OFFSET_BACKED", pillar |-> "offsets", verified |-> FALSE, confidence |-> 800]>> :
       eff \in FormatFixed(avg_eff[1], avg_eff[2], 10),
       motor \in FormatFixed(avg_motor[1], avg_motor[2], 1000),
       recharge \in FormatFixed(avg_recharge[1], avg_recharge[2], 100)}

\* _build_company_from_make on the row objects `rows` of heap h: the
\* [heap, ref] pairs it can return (the claims and the company are new objects)
_build_company_from_make(h, make, rows) ==
    LET Cells(name, default) ==
            [i \in DOMAIN rows |-> _safe_float(Get(h[rows[i]], name, ""), default)]
        Company(claims, pillar_scores, prior_year_scores, offset_dependency, grid,
                bucket, models, model_label, report_year) ==
            [heap |-> h \o claims \o
               <<[id |-> "make-" \o _slugify(make),
                  name |-> make,
                  logo |-> _logo_for_make(make),
                  model |-> model_label,
                  models |-> models,
                  __rows |-> rows,
                  report_year |-> report_year,
                  claims |-> [i \in 1..5 |-> Len(h) + i],
                  pillar_scores |-> pillar_scores,
                  prior_year_scores |-> prior_year_scores,
                  offset_dependency |-> offset_dependency,
                  offset_quality |->
                    <<"None", "VCS", "Unverified", "Gold Standard">>[(bucket % 4) + 1],
                  regulatory_alignment |->
                    [GRI |-> bucket % 2 = 0, CSRD |-> bucket % 3 = 0,
                     SEC_Climate |-> bucket % 4 = 0, TCFD |-> bucket % 5 \in {0, 1}],
                  grid_carbon_intensity_gco2_kwh |-> grid]>>,
             ref |-> Len(h) + 6]
        \* the records, given the sums of the cells over n rows and the bucket
        Scored(sum_eff, sum_motor, sum_recharge, n, bucket, models, model_label, report_year) ==
            LET candidates ==
                    [use_phase     |-> _clamp(Units(20) * n + sum_eff * 10, n,
                                              Units(25), Units(95)),
                     manufacturing |-> _clamp(Units(85 + (bucket % 8)) * 7 * n - sum_motor,
                                              7 * n, Units(30), Units(92)),
                     supply_chain  |-> _clamp(Units(46 + (bucket % 28)), 1,
                                              Units(28), Units(84)),
                     raw_materials |-> _clamp(Units(42 + ((bucket * 3) % 30)), 1,
                                              Units(28), Units(86)),
                     end_of_life   |-> _clamp(Units(40 + ((bucket * 2) % 34)), 1,
                                              Units(30), Units(90)),
                     offsets       |-> _clamp(Units(76 + (bucket % 10)) * n - sum_recharge * 4,
                                              n, Units(22), Units(90))]
                Prior(pillar_scores) ==
                    DictChoicesOver(
                        [k \in DOMAIN pillar_scores |->
                           _clamp(pillar_scores[k] - Units(2 + (bucket % 5)), 1, 0, Units(100))],
                        DOMAIN pillar_scores)
            IN  UNION {
                  {Company(claims, pillar_scores, prior_year_scores, offset_dependency, grid,
                           bucket, models, model_label, report_year) :
                     claims \in _build_claims(make, <<sum_eff, n>>, <<sum_motor, n>>,
                                              <<sum_recharge, n>>),
                     prior_year_scores \in Prior(pillar_scores),
                     offset_dependency \in _clamp(Units(18 + (bucket % 32)), 1,
                                                  Units(2), Units(70)),
                     grid \in _clamp(Units(280 + bucket * 6), 1, Units(180), Units(640))} :
                  pillar_scores \in DictChoicesOver(candidates, DOMAIN candidates)}
        Labelled(efficiencies, motors, recharges, models, min_year, report_year) ==
            Scored(SumSeq(efficiencies), SumSeq(motors), SumSeq(recharges),
                   Max(1, Len(rows)), _hash_bucket(make, 40), models,
                   ToString(Len(models)) \o " EV models (" \o ToString(min_year)
                   \o "-" \o ToString(report_year) \o ")",
                   report_year)
        \* report_year = int(max(years) if years else 2024) and
        \* min_year = int(min(years) if years else report_year)
        Dated(efficiencies, motors, recharges, years, models) ==
            Labelled(efficiencies, motors, recharges, models,
                     PyInt(IF years # <<>> THEN MinSeq(years) ELSE Units(2024)),
                     PyInt(IF years # <<>> THEN MaxSeq(years) ELSE Units(2024)))
    IN  Dated(Cells("Energy Efficiency (km/kWh)", 0), Cells("Motor (kW)", 0),
              Cells("Recharge time (h)", 0), Cells("Model year", Units(2024)),
              SortedSet({Strip(Get(h[rows[i]], "Model", "")) : i \in DOMAIN rows} \ {""}))

\* _build_company_from_model: the base record, then three of its items replaced
_build_company_from_model(h, make, model_name, rows) ==
    {LET company == b.heap[b.ref]
         default == Units(Get(company, "report_year", 2024))
         year_values == [i \in DOMAIN rows |->
                           _safe_float(Get(b.heap[rows[i]], "Model year", ""), default)]
         min_year == PyInt(IF year_values # <<>> THEN MinSeq(year_values) ELSE default)
         max_year == PyInt(IF year_values # <<>> THEN MaxSeq(year_values) ELSE default)
     IN  [heap |-> [b.heap EXCEPT ![b.ref] =
                      Put(Put(Put(@, "id", company["id"] \o "--model-" \o _slugify(model_name)),
                              "model", model_name \o " (" \o ToString(Len(rows)) \o " records, "
                                       \o ToString(min_year) \o "-" \o ToString(max_year) \o ")"),
                          "models", <<model_name>>)],
          ref |-> b.ref] :
       b \in _build_company_from_make(h, make, rows)}

-----------------------------------------------------------------------------
(* app.py: the company list.  A value of _load_companies_from_csv is       *)
(* [none, companies]: None, or a list of references.  csv_cache is the     *)
(* lru_cache around it: loaded says that a value has been stored.          *)

\* data/companies.json, read again at every fallback
JsonCompanies ==
    <<[id |-> "tesla", name |-> "Tesla", logo |-> "T", model |-> "Model 3 / Model Y",
       models |-> <<"Model Y", "Model 3">>, report_year |-> 2023,
       claims |-> <<[text |-> "Battery sourcing is ethical.", type |-> "VAGUE",
                     pillar |-> "raw_materials", verified |-> FALSE, confidence |-> 760],
                    [text |-> "Scope 1 emissions fell 12% in 2023.", type |-> "NUMERIC",
                     pillar |-> "manufacturing", verified |-> TRUE, confidence |-> 950]>>,
       pillar_scores |-> [raw_materials |-> Units(62), manufacturing |-> Units(78),
                          supply_chain |-> Units(45), use_phase |-> Units(85),
                          end_of_life |-> Units(58), offsets |-> Units(70)],
       prior_year_scores |-> [raw_materials |-> Units(55), manufacturing |-> Units(78),
                              supply_chain |-> Units(48), use_phase |-> Units(80),
                              end_of_life |-> Units(58), offsets |-> Units(70)],
       offset_dependency |-> Units(15), offset_quality |-> "Gold Standard",
       regulatory_alignment |-> [GRI |-> TRUE, CSRD |-> FALSE,
                                 SEC_Climate |-> TRUE, TCFD |-> TRUE],
       grid_carbon_intensity_gco2_kwh |-> Units(380)],
      [id |-> "byd", name |-> "BYD", logo |-> "B", model |-> "Atto 3",
       report_year |-> 2023,
       claims |-> <<[text |-> "We buy carbon offsets.", type |-> "OFFSET_BACKED",
                     pillar |-> "offsets", verified |-> FALSE, confidence |-> 850]>>,
       pillar_scores |-> [raw_materials |-> Units(50), manufacturing |-> Units(60),
                          supply_chain |-> Units(40), use_phase |-> Units(70),
                          end_of_life |-> Units(45), offsets |-> Units(35)],
       prior_year_scores |-> [raw_materials |-> Units(50), manufacturing |-> Units(64),
                              supply_chain |-> Units(40), use_phase |-> Units(70),
                              end_of_life |-> Units(45), offsets |-> Units(35)],
       offset_dependency |-> Units(45), offset_quality |-> "Unverified",
       regulatory_alignment |-> [GRI |-> TRUE, CSRD |-> FALSE,
                                 SEC_Climate |-> FALSE, TCFD |-> FALSE],
       grid_carbon_intensity_gco2_kwh |-> Units(550)]>>

\* the company builds of the list comprehension, make by make
RECURSIVE BuildCompanies(_, _, _, _)
BuildCompanies(h, makes, row_refs, acc) ==
    IF makes = <<>> THEN {[heap |-> h, value |-> [none |-> FALSE, companies |-> acc]]}
    ELSE UNION {BuildCompanies(b.heap, Tail(makes), row_refs, Append(acc, b.ref)) :
                  b \in _build_company_from_make(
                          h, Head(makes),
                          SelectSeq(row_refs,
                                    LAMBDA r : Strip(Get(h[r], "Make", "")) = Head(makes)))}

\* the body of _load_companies_from_csv on the file csv: the [heap, value]
\* pairs it can return
_load_companies_from_csv(h, csv) ==
    LET row_refs == [i \in DOMAIN csv.rows |-> Len(h) + i]
        makes == SortedSet({Strip(Get(csv.rows[i], "Make", "")) : i \in DOMAIN csv.rows} \ {""})
    IN  IF ~csv.exists \/ makes = <<>> THEN {[heap |-> h, value |-> [none |-> TRUE, companies |-> <<>>]]}
        ELSE BuildCompanies(h \o csv.rows, makes, row_refs, <<>>)

\* one call through lru_cache(maxsize=1).  miss says that this call found
\* the cache empty when it looked; the body then runs outside the lock, and
\* its value is stored unless another call has stored one in the meantime.
lru_cache_call(h, cache, csv, miss) ==
    IF cache.loaded /\ ~miss
    THEN {[heap |-> h, cache |-> cache,
           value |-> [none |-> cache.none, companies |-> cache.companies]]}
    ELSE {[heap |-> o.heap,
           cache |-> IF cache.loaded THEN cache
                     ELSE [loaded |-> TRUE, none |-> o.value.none,
                           companies |-> o.value.companies],
           value |-> o.value] : o \in _load_companies_from_csv(h, csv)}

\* json.load(f)["companies"]: new objects at every call
RECURSIVE json_load(_, _, _)
json_load(h, values, acc) ==
    IF values = <<>> THEN [heap |-> h, companies |-> acc]
    ELSE LET company == Head(values)
             claims == company["claims"]
         IN  json_load(h \o claims
                         \o <<Put(company, "claims", [i \in DOMAIN claims |-> Len(h) + i])>>,
                       Tail(values), Append(acc, Len(h) + Len(claims) + 1))

\* load_companies: the [heap, cache, companies] triples it can return
load_companies(h, cache, csv, miss) ==
    {IF ~o.value.none /\ o.value.companies # <<>>
     THEN [heap |-> o.heap, cache |-> o.cache, companies |-> o.value.companies]
     ELSE LET fallback == json_load(o.heap, JsonCompanies, <<>>)
          IN  [heap |-> fallback.heap, cache |-> o.cache, companies |-> fallback.companies] :
       o \in lru_cache_call(h, cache, csv, miss)}

\* get_company_by_id: company is a reference, or 0 for None
get_company_by_id(h, cache, csv, miss, company_id) ==
    {LET found == {i \in DOMAIN o.companies : o.heap[o.companies[i]]["id"] = company_id}
     IN  [heap |-> o.heap, cache |-> o.cache, companies |-> o.companies,
          company |-> IF found = {} THEN 0
                      ELSE o.companies[CHOOSE i \in found : \A j \in found : i <= j]] :
       o \in load_companies(h, cache, csv, miss)}

\* what a handler was given by load_companies: id, models and origin of each company
LoadedView(h, companies) ==
    [i \in DOMAIN companies |->
       [id |-> h[companies[i]]["id"],
        models |-> Get(h[companies[i]], "models", <<>>),
        from_csv |-> "__rows" \in DOMAIN h[companies[i]]]]

-----------------------------------------------------------------------------
(* app.py: the GET handlers.  Each returns the set of outcomes             *)
(* [heap, cache, loaded, response] it can end with; a response is          *)
(* [status, body], the body of an abort being its description.             *)

Reply(h, cache, companies, status, body) ==
    [heap |-> h, cache |-> cache, loaded |-> LoadedView(h, companies),
     response |-> [status |-> status, body |-> body]]

api_companies(h, cache, csv, miss) ==
    {Reply(o.heap, o.cache, o.companies, 200,
           [i \in DOMAIN o.companies |->
              LET c == o.heap[o.companies[i]]
              IN  [id |-> c["id"], name |-> c["name"], logo |-> c["logo"],
                   model |-> c["model"], model_count |-> Len(Get(c, "models", <<>>))]]) :
       o \in load_companies(h, cache, csv, miss)}

api_models(h, cache, csv, miss, company_id) ==
    {IF o.company = 0
     THEN Reply(o.heap, o.cache, o.companies, 404,
                "Company '" \o company_id \o "' not found.")
     ELSE Reply(o.heap, o.cache, o.companies, 200,
                [company_id |-> company_id,
                 models |-> SortedList(Get(o.heap[o.company], "models", <<>>))]) :
       o \in get_company_by_id(h, cache, csv, miss, company_id)}

\* api_analyze from compute_lts on: the result, the drift, the labels and weights
analysis(h, cache, companies, c, selected_model) ==
    UNION {
      {LET result == Put(Put(Put(Serialize(r.heap, r.result), "temporal_drift", drift),
                             "pillar_labels", PILLAR_LABELS),
                         "pillar_weights", PILLAR_WEIGHTS)
       IN  Reply(r.heap, cache, companies, 200,
                 IF selected_model # "" THEN Put(result, "selected_model", selected_model)
                 ELSE result) :
         drift \in compute_drift(Get(h[c], "pillar_scores", <<>>),
                                 Get(h[c], "prior_year_scores", <<>>))} :
      r \in compute_lts(h, c)}

api_analyze(h, cache, csv, miss, company_id, model_arg) ==
    UNION {
      IF o.company = 0
      THEN {Reply(o.heap, o.cache, o.companies, 404,
                  "Company '" \o company_id \o "' not found.")}
      ELSE LET company == o.heap[o.company]
               selected_model == Strip(model_arg)
               rows == Get(company, "__rows", <<>>)
               model_rows ==
                   SelectSeq(rows, LAMBDA r : Strip(Get(o.heap[r], "Model", "")) = selected_model)
           IN  IF selected_model # "" /\ rows # <<>>
               THEN IF model_rows = <<>>
                    THEN {Reply(o.heap, o.cache, o.companies, 404,
                                "Model '" \o selected_model \o "' not found for company '"
                                \o company["name"] \o "'.")}
                    ELSE UNION {
                           analysis([b.heap EXCEPT ![b.ref] =
                                       Put(@, "logo", Get(company, "logo", ""))],
                                    o.cache, o.companies, b.ref, selected_model) :
                           b \in _build_company_from_model(o.heap, company["name"],
                                                           selected_model, model_rows)}
               ELSE analysis(o.heap, o.cache, o.companies, o.company, selected_model) :
      o \in get_company_by_id(h, cache, csv, miss, company_id)}

\* ids = [i.strip() for i in ids_param.split(",") if i.strip()]
compare_ids(ids_param) ==
    LET parts == SplitOn(ids_param, ",")
    IN  SelectSeq([i \in DOMAIN parts |-> Strip(parts[i])], LAMBDA x : x # "")

\* the loop of api_compare over ids
RECURSIVE compare_loop(_, _, _, _, _, _, _)
compare_loop(h, cache, csv, miss, ids, results, loaded) ==
    IF ids = <<>>
    THEN {[heap |-> h, cache |-> cache, loaded |-> loaded,
           response |-> [status |-> 200, body |-> results]]}
    ELSE UNION {
           IF o.company = 0
           THEN compare_loop(o.heap, o.cache, csv, FALSE, Tail(ids), results,
                             LoadedView(o.heap, o.companies))
           ELSE UNION {
                  compare_loop(r.heap, o.cache, csv, FALSE, Tail(ids),
                               Append(results,
                                      Put(Put(Serialize(r.heap, r.result), "id", Head(ids)),
                                          "logo", Get(o.heap[o.company], "logo", ""))),
                               LoadedView(o.heap, o.companies)) :
                  r \in compute_lts(o.heap, o.company)} :
           o \in get_company_by_id(h, cache, csv, miss, Head(ids))}

api_compare(h, cache, csv, miss, ids_param) ==
    IF ids_param = ""
    THEN {[heap |-> h, cache |-> cache, loaded |-> <<>>,
           response |-> [status |-> 400, body |-> "Provide ?ids=company1,company2"]]}
    ELSE compare_loop(h, cache, csv, miss, compare_ids(ids_param), <<>>, <<>>)

\* the route table
Handle(h, cache, csv, miss, req) ==
    CASE req.route = "companies" -> api_companies(h, cache, csv, miss)
      [] req.route = "models"    -> api_models(h, cache, csv, miss, req.company_id)
      [] req.route = "analyze"   -> api_analyze(h, cache, csv, miss, req.company_id, req.model)
      [] req.route = "compare"   -> api_compare(h, cache, csv, miss, req.ids)

\* does the handler of req call load_companies at all
CallsLoadCompanies(req) == req.route # "compare" \/ compare_ids(req.ids) # <<>>

\* the objects the cached list holds: companies, their claims and their rows
CachedRefs(h, cache) ==
    UNION {{cache.companies[i]}
           \cup {h[cache.companies[i]]["claims"][j] :
                   j \in DOMAIN h[cache.companies[i]]["claims"]}
           \cup {h[cache.companies[i]]["__rows"][j] :
                   j \in DOMAIN h[cache.companies[i]]["__rows"]} :
           i \in DOMAIN cache.companies}

\* the objects of a finished request are released; the cached ones stay
Collect(h, cache) ==
    SubSeq(h, 1, IF CachedRefs(h, cache) = {} THEN 0
                 ELSE CHOOSE r \in CachedRefs(h, cache) :
                        \A q \in CachedRefs(h, cache) : q <= r)

-----------------------------------------------------------------------------
(* SpecApp: the GET handlers served by worker threads over one process-    *)
(* wide cache, while the dataset on disk may be replaced.  A request that  *)
(* finds the cache empty runs the loader outside the cache lock, so other  *)
(* requests are served between its look-up and its store.                  *)

MaxThreads == 2

\* the dataset: absent, holding its header alone, or holding rows of two
\* makes with a row without make and cells float() rejects
CsvFiles ==
    LET Row(make, model, year, efficiency, motor, recharge) ==
            ("Make" :> make) @@ ("Model" :> model) @@ ("Model year" :> year)
            @@ ("Energy Efficiency (km/kWh)" :> efficiency)
            @@ ("Motor (kW)" :> motor) @@ ("Recharge time (h)" :> recharge)
    IN  {[exists |-> FALSE, rows |-> <<>>],
         [exists |-> TRUE, rows |-> <<>>],
         [exists |-> TRUE,
          rows |-> <<Row("Tesla", "Model 3", "2022", "6.2", "208", "8.5"),
                     Row("Tesla", " Model Y ", "2023", "5.9", "220", "9"),
                     Row(" BYD ", "Atto 3", "2022", "6.0", "150", "7.5"),
                     Row("", "Ghost", "2020", "1", "1", "1"),
                     Row("BYD", "Atto 3", "n/a", "6.1", "", "8.5")>>]}

Requests ==
    LET CompanyIds == {"make-tesla", "tesla", "ghost"}
        ModelArgs == {"", " Model Y ", "Cybertruck"}
        IdsParams == {"", "make-tesla, byd", " , "}
    IN  {[route |-> "companies", company_id |-> "", model |-> "", ids |-> ""]}
        \cup {[route |-> "models", company_id |-> c, model |-> "", ids |-> ""] :
                c \in CompanyIds}
        \cup {[route |-> "analyze", company_id |-> c, model |-> m, ids |-> ""] :
                c \in CompanyIds, m \in ModelArgs}
        \cup {[route |-> "compare", company_id |-> "", model |-> "", ids |-> p] :
                p \in IdsParams}

AppInit ==
    /\ csv_file \in CsvFiles
    /\ csv_cache = [loaded |-> FALSE, none |-> TRUE, companies |-> <<>>]
    /\ app_loading = 0
    /\ app_response = [status |-> 0]
    /\ app_loaded = <<>>
    /\ LtsIdle
    /\ ClassifyIdle
    /\ DomainIdle
    /\ PdfIdle
    /\ EngineIdle

\* a handler returns: its response is sent, its objects are released
Respond(req, out) ==
    /\ heap' = Collect(out.heap, out.cache)
    /\ csv_cache' = out.cache
    /\ app_response' = [status |-> out.response.status, body |-> out.response.body,
                        request |-> req]
    /\ app_loaded' = out.loaded

\* a free worker serves a request whose handler finds the company list in
\* the cache, or never asks for it
Serve(req) ==
    /\ app_loading < MaxThreads
    /\ csv_cache.loaded \/ ~CallsLoadCompanies(req)
    /\ \E out \in Handle(heap, csv_cache, csv_file, FALSE, req) : Respond(req, out)
    /\ UNCHANGED <<csv_file, app_loading, lts_pc, lts_input, lts_result,
                   cl_vars, dom_vars, pdf_vars, eng_vars>>

\* a free worker takes a request whose handler asks for the company list and
\* finds the cache empty: the loader is entered.  Nothing of the request has
\* been looked at yet beyond its route, so its parameters are drawn when the
\* handler goes on.
BeginLoad ==
    /\ app_loading < MaxThreads
    /\ ~csv_cache.loaded
    /\ app_loading' = app_loading + 1
    /\ UNCHANGED <<heap, csv_file, csv_cache, app_response, app_loaded,
                   lts_pc, lts_input, lts_result, cl_vars, dom_vars, pdf_vars, eng_vars>>

\* a worker inside the loader reads the dataset as it is now, and its handler
\* runs to its end
FinishLoad(req) ==
    /\ app_loading > 0
    /\ CallsLoadCompanies(req)
    /\ \E out \in Handle(heap, csv_cache, csv_file, TRUE, req) : Respond(req, out)
    /\ app_loading' = app_loading - 1
    /\ UNCHANGED <<csv_file, lts_pc, lts_input, lts_result, cl_vars, dom_vars, pdf_vars, eng_vars>>

\* the dataset on disk is replaced, removed or created
ReplaceCsv(csv) ==
    /\ csv # csv_file
    /\ csv_file' = csv
    /\ UNCHANGED <<heap, csv_cache, app_loading, app_response, app_loaded,
                   lts_pc, lts_input, lts_result, cl_vars, dom_vars, pdf_vars, eng_vars>>

AppNext ==
    \/ \E req \in Requests : Serve(req)
    \/ BeginLoad
    \/ \E req \in Requests : FinishLoad(req)
    \/ \E csv \in CsvFiles : ReplaceCsv(csv)

SpecApp == AppInit /\ [][AppNext]_vars

-----------------------------------------------------------------------------
(* Properties of the GET handlers (checked under SpecApp) *)

AnalyzeAnswered ==
    app_response.status # 0 /\ app_response.request.route = "analyze"

\* the companies of the list the handler searched that carry the requested id
RequestedCompanies ==
    {i \in DOMAIN app_loaded : app_loaded[i].id = app_response.request.company_id}

\* the model name of the request, as the handler reads it
NamedModel == Strip(app_response.request.model)

\* the company is unknown, or a model is named that it does not list
CompanyOrModelAbsent ==
    \/ RequestedCompanies = {}
    \/ /\ NamedModel # ""
       /\ LET first == CHOOSE i \in RequestedCompanies : \A j \in RequestedCompanies : i <= j
          IN  \A k \in DOMAIN app_loaded[first].models :
                app_loaded[first].models[k] # NamedModel

\* C7 (as claimed): GET /api/analyze/<company_id>?model=<name> answers 404
\* whenever the company id is unknown or the named model is not among the
\* company's models, whichever source the company list came from, and answers
\* with an LTS result only when the company and any named model exist.
C7_Analyze404OnAbsentCompanyOrModel ==
    AnalyzeAnswered =>
        /\ CompanyOrModelAbsent => app_response.status = 404
        /\ app_response.status = 200 => ~CompanyOrModelAbsent

\* the divergence: a company of the JSON fallback list analysed under the
\* name of a model it does not list
C7_Witness ==
    /\ AnalyzeAnswered
    /\ app_response.request.company_id = "tesla"
    /\ NamedModel = "Cybertruck"
    /\ \A i \in DOMAIN app_loaded : ~app_loaded[i].from_csv
    /\ app_response.status = 200
    /\ Get(app_response.body, "selected_model", "") = "Cybertruck"
    /\ app_response.body["company"] = "Tesla"

\* C9: once the CSV-derived list is stored in the cache, no step of any
\* handler (nor a change of the file on disk) stores another list or changes
\* a field of a cached company, claim or row; handlers write to copies only.
C9_CacheNeverMutated ==
    [][csv_cache.loaded =>
         /\ csv_cache' = csv_cache
         /\ \A r \in CachedRefs(heap, csv_cache) : heap'[r] = heap[r]]_vars

\* a per-model analysis served from a cached list whose file has since been
\* removed: the response carries the per-model label and the fingerprinted
\* claims, the cached objects carry neither
C9_Witness ==
    /\ csv_cache.loaded /\ ~csv_cache.none /\ Len(csv_cache.companies) = 2
    /\ ~csv_file.exists
    /\ AnalyzeAnswered
    /\ app_response.status = 200
    /\ app_response.request.company_id = "make-tesla"
    /\ Get(app_response.body, "selected_model", "") = "Model Y"
    /\ app_response.body["model"] = "Model Y (1 records, 2023-2023)"
    /\ \A i \in DOMAIN app_response.body["claims"] :
         "impact_score" \in DOMAIN app_response.body["claims"][i]
    /\ \E i \in DOMAIN csv_cache.companies :
         /\ heap[csv_cache.companies[i]]["id"] = "make-tesla"
         /\ heap[csv_cache.companies[i]]["model"] = "2 EV models (2022-2023)"
         /\ \A j \in DOMAIN heap[csv_cache.companies[i]]["claims"] :
              "impact_score" \notin DOMAIN heap[heap[csv_cache.companies[i]]["claims"][j]]

-----------------------------------------------------------------------------
(* app.py and engine/nlp_engine.py: from the text of an uploaded report to *)
(* a synthetic company record *)

MAX_PDF_PAGES == 30

MAX_PDF_SIZE_BYTES == 60 * 1024 * 1024

PILLAR_KEYWORDS ==
    [raw_materials |-> <<"lithium", "cobalt", "nickel", "mining", "mineral", "raw material">>,
     manufacturing |-> <<"factory", "manufacturing", "plant", "scope 1", "scope 2",
                         "renewable electricity">>,
     supply_chain  |-> <<"supplier", "scope 3", "procurement", "tier 1", "tier 2", "value chain">>,
     use_phase     |-> <<"use phase", "kwh", "efficiency", "lifecycle emissions", "grid",
                         "charging">>,
     end_of_life   |-> <<"recycle", "recycling", "end-of-life", "second-life", "recovery",
                         "battery return">>,
     offsets       |-> <<"offset", "carbon credit", "rec", "gold standard", "vcs", "net zero">>]

\* s.split(): the words between runs of whitespace
RECURSIVE SplitWords(_)
SplitWords(s) ==
    LET t == LStripChars(s, WHITESPACE)
        gaps == {i \in 1..Len(t) : SubSeq(t, i, i) \in WHITESPACE}
        first == CHOOSE i \in gaps : \A j \in gaps : i <= j
    IN  IF Len(t) = 0 THEN <<>>
        ELSE IF gaps = {} THEN <<t>>
        ELSE <<SubSeq(t, 1, first - 1)>> \o SplitWords(SubSeq(t, first + 1, Len(t)))

\* s.splitlines(), for lines that end in "\n"
splitlines(s) ==
    LET parts == SplitOn(s, "\n")
    IN  IF parts[Len(parts)] = "" THEN SubSeq(parts, 1, Len(parts) - 1) ELSE parts

\* re.split(r'(?<=[.!?])\s+', t): t is cut at every run of whitespace that
\* follows a full stop, an exclamation mark or a question mark
RECURSIVE SplitSentences(_)
SplitSentences(t) ==
    LET cuts == {i \in 2..Len(t) : /\ SubSeq(t, i, i) \in WHITESPACE
                                   /\ SubSeq(t, i - 1, i - 1) \in {".", "!", "?"}}
        first == CHOOSE i \in cuts : \A j \in cuts : i <= j
        rest == LStripChars(SubSeq(t, first, Len(t)), WHITESPACE)
    IN  IF cuts = {} THEN <<t>>
        ELSE <<SubSeq(t, 1, first - 1)>> \o SplitSentences(rest)

\* t.count(p): occurrences of p in t, counted from the left without overlap
Count(t, p) ==
    LET at == {i \in 1..(Len(t) - Len(p) + 1) : SubSeq(t, i, i + Len(p) - 1) = p}
        RECURSIVE CountFrom(_)
        CountFrom(from) ==
            LET later == {i \in at : i >= from}
                first == CHOOSE i \in later : \A j \in later : i <= j
            IN  IF later = {} THEN 0 ELSE 1 + CountFrom(first + Len(p))
    IN  CountFrom(1)

\* {"text": sentence, **classification}
ClaimOf(text) == Put(classify_claim(text), "text", text)

extract_and_classify_claims(text) ==
    LET sentences == SplitSentences(Strip(text))
        stripped == [i \in DOMAIN sentences |-> Strip(sentences[i])]
        kept == SelectSeq(stripped, LAMBDA sentence : Len(sentence) > 20)
    IN  [i \in DOMAIN kept |-> ClaimOf(kept[i])]

_fallback_claims_from_lines(text) ==
    LET lines == splitlines(text)
        cleaned == [i \in DOMAIN lines |-> Join(SplitWords(lines[i]), " ")]
        kept == SelectSeq(cleaned, LAMBDA line : ~(Len(line) < 28))
    IN  [i \in 1..Min(Len(kept), 120) |-> ClaimOf(kept[i])]

\* max(scores, key=scores.get): the first pillar with the highest count
_infer_pillar(claim_text) ==
    LET claim_lower == Lower(claim_text)
        scores == [i \in DOMAIN PILLARS |->
                     CountHits(claim_lower, PILLAR_KEYWORDS[PILLARS[i]])]
        best == CHOOSE i \in DOMAIN PILLARS :
                  /\ \A j \in DOMAIN PILLARS : scores[j] <= scores[i]
                  /\ \A j \in 1..(i - 1) : scores[j] < scores[i]
    IN  IF scores[best] > 0 THEN PILLARS[best] ELSE "supply_chain"

\* mutant: a pillar without a keyword in the text scores 0
_estimate_pillar_scores_from_zero(text) ==
    LET text_lower == Lower(text)
        hits(pillar) == SumSeq([i \in DOMAIN PILLAR_KEYWORDS[pillar] |->
                                  Count(text_lower, PILLAR_KEYWORDS[pillar][i])])
    IN  [pillar \in DOMAIN PILLAR_KEYWORDS |->
           IF hits(pillar) = 0 THEN 0
           ELSE IF hits(pillar) < 3 THEN Units(40 + hits(pillar) * 10)
           ELSE Units(Min(95, 62 + hits(pillar) * 4))]

_estimate_pillar_scores(text) ==
    LET text_lower == Lower(text)
        hits(pillar) == SumSeq([i \in DOMAIN PILLAR_KEYWORDS[pillar] |->
                                  Count(text_lower, PILLAR_KEYWORDS[pillar][i])])
    IN  [pillar \in DOMAIN PILLAR_KEYWORDS |->
           IF hits(pillar) = 0 THEN Units(22)
           ELSE IF hits(pillar) < 3 THEN Units(40 + hits(pillar) * 10)
           ELSE Units(Min(95, 62 + hits(pillar) * 4))]

_estimate_regulatory_alignment(text) ==
    LET text_lower == Lower(text)
    IN  [GRI |-> Contains(text_lower, "gri")
                 \/ Contains(text_lower, "global reporting initiative"),
         CSRD |-> Contains(text_lower, "csrd"),
         SEC_Climate |-> Contains(text_lower, "sec climate")
                         \/ Contains(text_lower, "sec rule"),
         TCFD |-> Contains(text_lower, "tcfd")]

_estimate_offset_quality(text) ==
    LET text_lower == Lower(text)
    IN  IF Contains(text_lower, "gold standard") THEN "Gold Standard"
        ELSE IF Contains(text_lower, "vcs")
                \/ Contains(text_lower, "verified carbon standard") THEN "VCS"
        ELSE IF Contains(text_lower, "offset") \/ Contains(text_lower, "carbon credit")
                \/ Contains(text_lower, "rec") THEN "Unverified"
        ELSE "None"

\* os.path.splitext(filename)[0], for a file name without directories
splitext_root(filename) ==
    LET dots == {i \in 1..Len(filename) :
                   /\ SubSeq(filename, i, i) = "."
                   /\ \E j \in 1..(i - 1) : SubSeq(filename, j, j) # "."}
    IN  IF dots = {} THEN filename
        ELSE SubSeq(filename, 1, (CHOOSE i \in dots : \A j \in dots : j <= i) - 1)

\* pdf.pages[:MAX_PDF_PAGES], reader.pages[:MAX_PDF_PAGES]
FirstPages(pages) == SubSeq(pages, 1, Min(Len(pages), MAX_PDF_PAGES))

\* _extract_pdf_text on the bytes of a document [plumber_ok, pypdf_ok, pages],
\* a page being [text, words, pypdf]: what pdfplumber's extract_text and
\* extract_words return for it and what PyPDF2's extract_text returns.  A
\* library that cannot read the bytes raises.
_extract_pdf_text(file_bytes) ==
    LET doc == file_bytes.doc
        plumber == FirstPages(doc.pages)
        page_texts == [i \in DOMAIN plumber |->
                         IF Strip(plumber[i].text) # "" THEN plumber[i].text
                         ELSE Join(plumber[i].words, " ")]
        text_parts == SelectSeq(page_texts, LAMBDA page_text : Strip(page_text) # "")
        merged == Strip(Join(text_parts, "\n"))
        reader == FirstPages(doc.pages)
        pypdf_merged == Strip(Join([i \in DOMAIN reader |-> reader[i].pypdf], "\n"))
    IN  IF ~doc.plumber_ok THEN [raised |-> TRUE]
        ELSE IF ~(Len(merged) < 1200)
        THEN [raised |-> FALSE, merged |-> merged, page_count |-> Len(plumber)]
        ELSE IF ~doc.pypdf_ok THEN [raised |-> TRUE]
        ELSE [raised |-> FALSE,
              merged |-> IF Len(pypdf_merged) > Len(merged) THEN pypdf_merged ELSE merged,
              page_count |-> Min(Len(doc.pages), MAX_PDF_PAGES)]

\* mutant: every file name is taken for a PDF
endswith_pdf_any(filename) == TRUE

\* file.filename.lower().endswith(".pdf")
endswith_pdf(filename) ==
    LET lowered == Lower(filename)
    IN  Len(lowered) >= 4 /\ SubSeq(lowered, Len(lowered) - 3, Len(lowered)) = ".pdf"

\* claims = extract_and_classify_claims(...); if not claims: claims =
\* _fallback_claims_from_lines(...); claims = claims[:120]: the claims and the
\* calls made
pdf_claims(full_text) ==
    LET sentences == extract_and_classify_claims(Prefix(full_text, 240000))
        claims == IF sentences = <<>>
                  THEN _fallback_claims_from_lines(Prefix(full_text, 240000))
                  ELSE sentences
    IN  [claims |-> Prefix(claims, 120),
         calls |-> IF sentences = <<>>
                   THEN <<"extract_and_classify_claims", "_fallback_claims_from_lines">>
                   ELSE <<"extract_and_classify_claims">>]

\* lines 503-527: the heap holding the enriched claims and, last, the
\* synthetic company that refers to them
synthetic_company(filename, full_text, claims) ==
    LET enriched_claims ==
            [i \in DOMAIN claims |->
               Put(Put(claims[i], "pillar", _infer_pillar(claims[i]["text"])),
                   "verified", claims[i]["type"] = "NUMERIC")]
        text_lower == Lower(full_text)
        offset_dependency ==
            Min(90, (Count(text_lower, "offset") + Count(text_lower, "carbon credit")
                     + Count(text_lower, "rec")) * 3)
        pillar_scores == _estimate_pillar_scores(full_text)
        prior_scores == [k \in DOMAIN pillar_scores |-> Max(0, pillar_scores[k] - Units(4))]
    IN  Append(enriched_claims,
               [name |-> Prefix(splitext_root(filename), 60),
                model |-> "Uploaded Sustainability Report",
                report_year |-> 2024,
                claims |-> [i \in DOMAIN claims |-> i],
                pillar_scores |-> pillar_scores,
                prior_year_scores |-> prior_scores,
                offset_dependency |-> Units(offset_dependency),
                offset_quality |-> _estimate_offset_quality(full_text),
                regulatory_alignment |-> _estimate_regulatory_alignment(full_text),
                grid_carbon_intensity_gco2_kwh |-> Units(420)])

\* lines 529-538: the bodies the 200 response can have
pdf_result(filename, locals) ==
    LET h == synthetic_company(filename, locals["full_text"], locals["claims"])
        company == h[Len(h)]
    IN  UNION {
          {LET result == Serialize(r.heap, r.result)
           IN  [k \in DOMAIN result \cup {"temporal_drift", "pillar_labels", "pillar_weights",
                                        "source", "source_file", "pages_processed",
                                        "claims_extracted", "domain_detection"} |->
                  CASE k = "temporal_drift" -> drift
                    [] k = "pillar_labels" -> PILLAR_LABELS
                    [] k = "pillar_weights" -> PILLAR_WEIGHTS
                    [] k = "source" -> "uploaded_pdf"
                    [] k = "source_file" -> filename
                    [] k = "pages_processed" -> locals["page_count"]
                    [] k = "claims_extracted" -> Len(company["claims"])
                    [] k = "domain_detection" -> locals["domain_info"]
                    [] OTHER -> result[k]] :
             drift \in compute_drift(company["pillar_scores"], company["prior_year_scores"])} :
          r \in compute_lts(h, Len(h))}

-----------------------------------------------------------------------------
(* SpecPdf: one request POST /api/analyze-pdf, statement by statement *)

\* the documents uploaded: what the two libraries make of their bytes
Documents ==
    LET Page(text, words, pypdf) == [text |-> text, words |-> words, pypdf |-> pypdf]
        Doc(plumber_ok, pypdf_ok, pages) ==
            [plumber_ok |-> plumber_ok, pypdf_ok |-> pypdf_ok, pages |-> pages]
        ReportText ==
            "Tesla vehicle deliveries rose by 12% in 2023.  We are committed to a"
            \o " sustainable future for all.\nBattery recycling offsets are verified"
            \o " under the Gold Standard."
        LongSentence ==
            "The automaker delivered 1.8 million electric vehicles and reduced Scope 3"
            \o " supplier emissions by 45% across every plant. "
    IN  {Doc(TRUE, TRUE, <<Page(ReportText, <<>>, "Tesla")>>),
         Doc(TRUE, TRUE, <<Page(" \n ", <<>>, "")>>),
         Doc(TRUE, TRUE, <<Page("Net zero. We recycle.", <<>>, "")>>),
         Doc(TRUE, TRUE, <<Page("Net zero by 2040. We recycle. Clean power.", <<>>, "")>>),
         Doc(TRUE, TRUE, <<Page("", <<"Rivian", "cut", "emissions", "by", "30%", "across",
                                      "its", "plants.">>, "")>>),
         Doc(FALSE, TRUE, <<Page(ReportText, <<>>, ReportText)>>),
         Doc(TRUE, FALSE, <<Page(ReportText, <<>>, ReportText)>>),
         Doc(TRUE, FALSE, <<Page(Join([i \in 1..10 |-> LongSentence], ""), <<>>, "")>>),
         Doc(TRUE, TRUE, <<Page(LongSentence, <<>>, "")>>),
         Doc(TRUE, TRUE,
             <<Page("GRI", <<>>, ""),
               Page("", <<>>, "We aim to be eco-friendly and green by 2030, says BMW.")>>),
         Doc(TRUE, TRUE, [i \in 1..(MAX_PDF_PAGES + 1) |->
                            IF i = MAX_PDF_PAGES + 1 THEN Page(ReportText, <<>>, ReportText)
                            ELSE Page("", <<>>, "")]),
         Doc(TRUE, TRUE, [i \in 1..(MAX_PDF_PAGES + 1) |->
                            IF i = 2 THEN Page("", <<>>, ReportText) ELSE Page("", <<>>, "")])}

\* request.files: without the field "file", or with a file in it
Uploads ==
    LET FileNames == {"", "report.pdf", "Tesla-2023.PDF", "notes.txt"}
        FileSizes == {1024, MAX_PDF_SIZE_BYTES, MAX_PDF_SIZE_BYTES + 1}
    IN  {[has_file |-> FALSE]}
        \cup {[has_file |-> TRUE, filename |-> f, content |-> [size |-> n, doc |-> d]] :
                f \in FileNames, n \in FileSizes, d \in Documents}

PdfInit ==
    /\ pdf_pc = "field"
    /\ pdf_upload \in Uploads
    /\ pdf_locals = <<>>
    /\ pdf_calls = <<>>
    /\ pdf_response = [status |-> 0]
    /\ LtsIdle
    /\ ClassifyIdle
    /\ DomainIdle
    /\ AppIdle
    /\ EngineIdle

\* abort(400, description=...)
PdfAbort(description) ==
    /\ pdf_pc' = "done"
    /\ pdf_response' = [status |-> 400, body |-> description]

PdfGoOn(pc) ==
    /\ pdf_pc' = pc
    /\ UNCHANGED pdf_response

PdfOthers == <<heap, lts_pc, lts_input, lts_result, cl_vars, dom_vars, app_vars, eng_vars, pdf_upload>>

\* line 472
CheckField ==
    /\ pdf_pc = "field"
    /\ IF ~pdf_upload.has_file
       THEN PdfAbort("Upload a PDF file in form field 'file'.")
       ELSE PdfGoOn("name")
    /\ UNCHANGED <<pdf_locals, pdf_calls, PdfOthers>>

\* lines 475-477
CheckName ==
    /\ pdf_pc = "name"
    /\ IF pdf_upload.filename = ""
       THEN PdfAbort("No file selected.")
       ELSE PdfGoOn("ext")
    /\ UNCHANGED <<pdf_locals, pdf_calls, PdfOthers>>

\* lines 478-479
CheckExtension ==
    /\ pdf_pc = "ext"
    /\ IF ~endswith_pdf(pdf_upload.filename)
       THEN PdfAbort("Only .pdf files are supported.")
       ELSE PdfGoOn("read")
    /\ UNCHANGED <<pdf_locals, pdf_calls, PdfOthers>>

\* lines 481-483
ReadFile ==
    /\ pdf_pc = "read"
    /\ pdf_calls' = Append(pdf_calls, "file.read")
    /\ pdf_locals' = Put(pdf_locals, "file_bytes", pdf_upload.content)
    /\ IF pdf_upload.content.size > MAX_PDF_SIZE_BYTES
       THEN PdfAbort("PDF exceeds 60MB limit.")
       ELSE PdfGoOn("extract")
    /\ UNCHANGED PdfOthers

\* lines 485-488
ExtractText ==
    /\ pdf_pc = "extract"
    /\ pdf_calls' = Append(pdf_calls, "_extract_pdf_text")
    /\ LET extracted == _extract_pdf_text(pdf_locals["file_bytes"])
       IN  IF extracted.raised
           THEN /\ PdfAbort("Failed to parse PDF. Ensure it is a valid text PDF.")
                /\ UNCHANGED pdf_locals
           ELSE /\ PdfGoOn("text")
                /\ pdf_locals' = Put(Put(pdf_locals, "full_text", extracted.merged),
                                     "page_count", extracted.page_count)
    /\ UNCHANGED PdfOthers

\* lines 490-491
CheckText ==
    /\ pdf_pc = "text"
    /\ IF Strip(pdf_locals["full_text"]) = ""
       THEN PdfAbort("No readable text found. Try a text-based PDF instead of a scanned image.")
       ELSE PdfGoOn("domain")
    /\ UNCHANGED <<pdf_locals, pdf_calls, PdfOthers>>

\* mutant: a text found not to be about electric vehicles is refused
DetectDomainGates ==
    /\ pdf_pc = "domain"
    /\ pdf_calls' = Append(pdf_calls, "_detect_ev_domain")
    /\ pdf_locals' = Put(pdf_locals, "domain_info",
                         _detect_ev_domain(pdf_locals["full_text"], pdf_upload.filename))
    /\ IF _detect_ev_domain(pdf_locals["full_text"], pdf_upload.filename).is_ev_domain
       THEN PdfGoOn("claims")
       ELSE PdfAbort("This file may not be EV-focused.")
    /\ UNCHANGED PdfOthers

\* line 493
DetectDomain ==
    /\ pdf_pc = "domain"
    /\ pdf_calls' = Append(pdf_calls, "_detect_ev_domain")
    /\ pdf_locals' = Put(pdf_locals, "domain_info",
                         _detect_ev_domain(pdf_locals["full_text"], pdf_upload.filename))
    /\ PdfGoOn("claims")
    /\ UNCHANGED PdfOthers

\* lines 495-501
ExtractClaims ==
    /\ pdf_pc = "claims"
    /\ LET extracted == pdf_claims(pdf_locals["full_text"])
       IN  /\ pdf_calls' = pdf_calls \o extracted.calls
           /\ pdf_locals' = Put(pdf_locals, "claims", extracted.claims)
           /\ IF extracted.claims = <<>>
              THEN PdfAbort("Could not extract enough analyzable claims from this PDF.")
              ELSE PdfGoOn("analyze")
    /\ UNCHANGED PdfOthers

\* lines 503-538
Analyze ==
    /\ pdf_pc = "analyze"
    /\ pdf_calls' = pdf_calls \o <<"compute_lts", "compute_drift">>
    /\ \E result \in pdf_result(pdf_upload.filename, pdf_locals) :
         /\ pdf_locals' = Put(pdf_locals, "result", result)
         /\ pdf_response' = [status |-> 200, body |-> result]
    /\ pdf_pc' = "done"
    /\ UNCHANGED PdfOthers

PdfNext ==
    \/ CheckField
    \/ CheckName
    \/ CheckExtension
    \/ ReadFile
    \/ ExtractText
    \/ CheckText
    \/ DetectDomain
    \/ ExtractClaims
    \/ Analyze

SpecPdf == PdfInit /\ [][PdfNext]_vars

-----------------------------------------------------------------------------
(* Properties of SpecPdf *)

\* the name of the upload ends in ".pdf", whatever the case of its letters
NamedPdf(filename) ==
    /\ Len(filename) >= 4
    /\ Lower(SubSeq(filename, Len(filename) - 3, Len(filename))) = ".pdf"

\* the description of the first check, in the order field, name, extension,
\* size, extraction, text, claims, that the upload u fails; "" if it passes all
FirstFailure(u) ==
    IF ~u.has_file THEN "Upload a PDF file in form field 'file'."
    ELSE IF u.filename = "" THEN "No file selected."
    ELSE IF ~NamedPdf(u.filename) THEN "Only .pdf files are supported."
    ELSE IF u.content.size > MAX_PDF_SIZE_BYTES THEN "PDF exceeds 60MB limit."
    ELSE LET extracted == _extract_pdf_text(u.content)
         IN  IF extracted.raised
             THEN "Failed to parse PDF. Ensure it is a valid text PDF."
             ELSE IF Strip(extracted.merged) = ""
             THEN "No readable text found. Try a text-based PDF instead of a scanned image."
             ELSE IF pdf_claims(extracted.merged).claims = <<>>
             THEN "Could not extract enough analyzable claims from this PDF."
             ELSE ""

\* the calls a request has made when it is refused with the description
CallsBefore(description) ==
    CASE description \in {"Upload a PDF file in form field 'file'.", "No file selected.",
                          "Only .pdf files are supported."} -> {<<>>}
      [] description = "PDF exceeds 60MB limit." -> {<<"file.read">>}
      [] description \in {"Failed to parse PDF. Ensure it is a valid text PDF.",
                          "No readable text found. Try a text-based PDF instead of a scanned image."}
           -> {<<"file.read", "_extract_pdf_text">>}
      [] OTHER -> {<<"file.read", "_extract_pdf_text", "_detect_ev_domain",
                     "extract_and_classify_claims", "_fallback_claims_from_lines">>}

Called(name) == \E i \in DOMAIN pdf_calls : pdf_calls[i] = name

LtsResultKeys ==
    {"company", "model", "report_year", "lts", "risk", "breakdown", "pillar_scores",
     "prior_year_scores", "claim_ratio", "claims", "offset_analysis",
     "regulatory_alignment", "grid_carbon_intensity", "esg_investor_index"}

PdfResultKeys ==
    LtsResultKeys \cup {"temporal_drift", "domain_detection", "source", "source_file",
                        "pages_processed", "claims_extracted"}

Refused ==
    /\ pdf_response.status = 400
    /\ FirstFailure(pdf_upload) # ""
    /\ pdf_response.body = FirstFailure(pdf_upload)
    /\ pdf_calls \in CallsBefore(pdf_response.body)
    /\ ~Called("compute_lts")
    /\ "result" \notin DOMAIN pdf_locals

Analyzed ==
    /\ pdf_response.status = 200
    /\ FirstFailure(pdf_upload) = ""
    /\ Called("compute_lts")
    /\ PdfResultKeys \subseteq DOMAIN pdf_response.body
    /\ pdf_response.body["source"] = "uploaded_pdf"
    /\ pdf_response.body["source_file"] = pdf_upload.filename
    /\ pdf_response.body["claims_extracted"] = Len(pdf_response.body["claims"])
    /\ pdf_response.body["claims_extracted"] >= 1

\* C8: a request POST /api/analyze-pdf is answered once, when it ends, and
\* the answer is either a 400 whose one message is that of the first check
\* the upload fails in the order field present, file name non-empty, file
\* name ending in .pdf, size within 60MB, extraction succeeding, text
\* non-blank, at least one claim -- the request having made no call that
\* belongs to a later check, and never compute_lts -- or a 200 whose body
\* has every key of an LTS result together with temporal_drift,
\* domain_detection and the source metadata.  An upload whose name does not
\* end in .pdf never has its bytes read nor its text extracted.
C8_PdfChecksInOrder ==
    /\ pdf_pc \in {"field", "name", "ext", "read", "extract", "text", "domain", "claims",
                   "analyze"} => pdf_response = [status |-> 0] /\ ~Called("compute_lts")
    /\ pdf_pc = "done" => Refused \/ Analyzed
    /\ (pdf_pc # "off" /\ pdf_upload.has_file /\ ~NamedPdf(pdf_upload.filename))
         => /\ pdf_calls = <<>>
            /\ "file_bytes" \notin DOMAIN pdf_locals
            /\ "full_text" \notin DOMAIN pdf_locals

\* an upload named notes.txt that is also too large and unreadable has been
\* refused for its name alone, nothing of it read
C8_Witness ==
    /\ pdf_pc = "done"
    /\ pdf_upload.has_file
    /\ pdf_upload.filename = "notes.txt"
    /\ pdf_upload.content.size > MAX_PDF_SIZE_BYTES
    /\ ~pdf_upload.content.doc.plumber_ok
    /\ pdf_response = [status |-> 400, body |-> "Only .pdf files are supported."]
    /\ pdf_calls = <<>>
    /\ pdf_locals = <<>>

-----------------------------------------------------------------------------
(* The engine functions called on their own (SpecEngine): one call of
   analyze_offsets, compute_drift, compute_weighted_score,
   compute_investor_esg_index, compute_lts, extract_and_classify_claims or
   _fallback_claims_from_lines, with arguments drawn from EngineCalls *)

\* the calls made: numbers are thousandths, a pillar mapping may leave
\* pillars out, a text holds up to MaxClaims sentences or lines around the
\* lengths 20 and 28, and one text holds more lines than the fallback keeps
EngineCalls ==
    LET Call(fn, args) == [fn |-> fn, args |-> args]
        Tiers == {"Gold Standard", "VCS", "Unverified", "None", "Bronze"}
        Dependencies == {i * 500 : i \in 0..200} \cup {Units(-5), 30001, Units(150)}
        Keys == {PILLARS[i] : i \in DOMAIN PILLARS}
        Mappings == {Uniform(0), Uniform(Units(100)), Uniform(81300), Uniform(79300),
                     Uniform(83300), Uniform(62500), Uniform(60500), Uniform(64500),
                     [p \in {} |-> 0],
                     [p \in {"raw_materials", "offsets"} |-> 70100],
                     [p \in {"use_phase"} |-> 2000]}
        Partial == UNION {[K -> {0, 62500, 99990, Units(100)}] : K \in SUBSET Keys}
        Risks == {"LOW", "MODERATE", "HIGH", "CRITICAL"}
        Sentences == {"Net zero is a goal.", "Net zero is the aim.",
                      "Net zero is our goal.",
                      "We reduced emissions by 40% in 2023!"}
        Lines == {"Our fleet is 100% electric.", "Our fleet is 100% renewable.",
                  "Our  fleet is\t100% electric.  ",
                  "We are committed to the planet.", "Contents"}
        Texts(S, sep) == {Join(t, sep) : t \in SeqsUpTo(S, MaxClaims)}
        Many == Join([i \in 1..125 |-> "We are committed to the planet we share."], "\n")
    IN  {Call("analyze_offsets", <<d, t>>) : d \in Dependencies, t \in Tiers}
        \cup {Call("compute_drift", <<c, p>>) : c \in Mappings, p \in Mappings}
        \cup {Call("compute_weighted_score", <<m>>) : m \in Partial}
        \cup {Call("compute_investor_esg_index", <<Units(l) \div 20, r>>) :
                l \in 0..2000, r \in Risks}
        \cup {Call("compute_lts",
                   <<[NeutralRecord(score) EXCEPT !.offset_dependency = o[1],
                                                  !.offset_quality = o[2],
                                                  !.regulatory_alignment = reg]>>) :
                score \in 0..100, o \in OffsetInputs, reg \in RegulatoryInputs}
        \cup {Call("extract_and_classify_claims", <<t>>) :
                t \in Texts(Sentences, " ") \cup {"  Net zero is the aim.\n"}}
        \cup {Call("_fallback_claims_from_lines", <<t>>) :
                t \in Texts(Lines, "\n") \cup {Many}}

EngineInit ==
    /\ eng_pc = "call"
    /\ eng_call \in EngineCalls
    /\ eng_result = PyNone
    /\ heap = <<>>
    /\ LtsIdle
    /\ ClassifyIdle
    /\ DomainIdle
    /\ AppIdle
    /\ PdfIdle

\* the call returns: nothing but the result changes
EngineReturn ==
    /\ eng_pc' = "done"
    /\ UNCHANGED <<eng_call, lts_vars, cl_vars, dom_vars, app_vars, pdf_vars>>

CallAnalyzeOffsets ==
    /\ eng_pc = "call"
    /\ eng_call.fn = "analyze_offsets"
    /\ eng_result' \in analyze_offsets(eng_call.args[1], eng_call.args[2])
    /\ EngineReturn

CallComputeDrift ==
    /\ eng_pc = "call"
    /\ eng_call.fn = "compute_drift"
    /\ eng_result' \in compute_drift(eng_call.args[1], eng_call.args[2])
    /\ EngineReturn

CallComputeWeightedScore ==
    /\ eng_pc = "call"
    /\ eng_call.fn = "compute_weighted_score"
    /\ eng_result' \in compute_weighted_score(eng_call.args[1])
    /\ EngineReturn

CallComputeInvestorEsgIndex ==
    /\ eng_pc = "call"
    /\ eng_call.fn = "compute_investor_esg_index"
    /\ eng_result' \in compute_investor_esg_index(eng_call.args[1], eng_call.args[2])
    /\ EngineReturn

\* compute_lts on a record without claims; the result as it is serialised
CallComputeLtsOnRecord ==
    /\ eng_pc = "call"
    /\ eng_call.fn = "compute_lts"
    /\ \E out \in compute_lts(BuildHeap(eng_call.args[1]), 1) :
         eng_result' = Serialize(out.heap, out.result)
    /\ EngineReturn

CallExtractAndClassifyClaims ==
    /\ eng_pc = "call"
    /\ eng_call.fn = "extract_and_classify_claims"
    /\ eng_result' \in {extract_and_classify_claims(eng_call.args[1])}
    /\ EngineReturn

CallFallbackClaimsFromLines ==
    /\ eng_pc = "call"
    /\ eng_call.fn = "_fallback_claims_from_lines"
    /\ eng_result' \in {_fallback_claims_from_lines(eng_call.args[1])}
    /\ EngineReturn

EngineNext ==
    \/ CallAnalyzeOffsets
    \/ CallComputeDrift
    \/ CallComputeWeightedScore
    \/ CallComputeInvestorEsgIndex
    \/ CallComputeLtsOnRecord
    \/ CallExtractAndClassifyClaims
    \/ CallFallbackClaimsFromLines

SpecEngine == EngineInit /\ [][EngineNext]_vars

\* the call made, when it has returned
Returned(fn) == eng_pc = "done" /\ eng_call.fn = fn

-----------------------------------------------------------------------------
(* Properties of analyze_offsets (checked under SpecEngine) *)

\* C11: whatever the offset dependency between 0 and 100, analyze_offsets
\* called with the tier "None" returns a dependency_penalty of 0 and the
\* risk_level "LOW"
C11_NoOffsetsNoPenalty ==
    (/\ Returned("analyze_offsets")
     /\ eng_call.args[2] = "None"
     /\ eng_call.args[1] >= 0
     /\ eng_call.args[1] <= Units(100))
        => /\ eng_result["dependency_penalty"] = 0
           /\ eng_result["risk_level"] = "LOW"

\* a dependency of 100 on no offsets at all: no penalty, low risk
C11_Witness ==
    /\ Returned("analyze_offsets")
    /\ eng_call.args = <<Units(100), "None">>
    /\ eng_result["dependency_penalty"] = 0
    /\ eng_result["risk_level"] = "LOW"
    /\ eng_result["quality_score"] = 100

-----------------------------------------------------------------------------
(* Properties of compute_drift (checked under SpecEngine) *)

\* C12: compute_drift called with the same mapping as current and as previous
\* scores returns, for each of the six pillars -- the pillars the mapping
\* leaves out included --, a delta of 0.0 and the trend "stable"
C12_NoDriftAgainstItself ==
    (Returned("compute_drift") /\ eng_call.args[1] = eng_call.args[2])
        => /\ DOMAIN eng_result = {PILLARS[i] : i \in DOMAIN PILLARS}
           /\ \A p \in DOMAIN eng_result :
                 /\ eng_result[p].delta = 0
                 /\ eng_result[p].trend = "stable"
                 /\ eng_result[p].current = eng_result[p].previous

\* a mapping of two pillars compared with itself: use_phase, which it leaves
\* out, is reported at 0 against 0, stable, as raw_materials is at 70.1
C12_Witness ==
    /\ Returned("compute_drift")
    /\ eng_call.args[1] = eng_call.args[2]
    /\ DOMAIN eng_call.args[1] = {"raw_materials", "offsets"}
    /\ eng_result["use_phase"] =
         [current |-> 0, previous |-> 0, delta |-> 0, trend |-> "stable"]
    /\ eng_result["raw_materials"] =
         [current |-> 70100, previous |-> 70100, delta |-> 0, trend |-> "stable"]

-----------------------------------------------------------------------------
(* Properties of compute_weighted_score (checked under SpecEngine) *)

\* C13: the six pillar weights sum to exactly 1.0, and compute_weighted_score
\* returns a value between 0 and 100 for every mapping whose values lie
\* between 0 and 100, a mapping that leaves pillars out included
C13_WeightedScoreInRange ==
    /\ DOMAIN PILLAR_WEIGHTS = {PILLARS[i] : i \in DOMAIN PILLARS}
    /\ Len(PILLARS) = 6
    /\ SumSeq([i \in DOMAIN PILLARS |-> PILLAR_WEIGHTS[PILLARS[i]]]) = 1000
    /\ (/\ Returned("compute_weighted_score")
        /\ \A p \in DOMAIN eng_call.args[1] :
              eng_call.args[1][p] >= 0 /\ eng_call.args[1][p] <= Units(100))
          => eng_result >= 0 /\ eng_result <= Units(100)

\* every pillar at 100: the weighted score is 100, the upper end of the range
C13_Witness ==
    /\ Returned("compute_weighted_score")
    /\ eng_call.args[1] = Uniform(Units(100))
    /\ eng_result = Units(100)

-----------------------------------------------------------------------------
(* The reference rules of analyze_offsets (checked under SpecEngine) *)

\* 90/65/25/100 for Gold Standard/VCS/Unverified/None, 25 for any other tier
RefQualityScore(tier) ==
    CASE tier = "Gold Standard" -> 90
      [] tier = "VCS" -> 65
      [] tier = "None" -> 100
      [] OTHER -> 25

\* m in thousandths: 1.0 from a quality score of 80, 1.5 from 60, else 2.5
RefMultiplier(tier) ==
    IF RefQualityScore(tier) >= 80 THEN 1000
    ELSE IF RefQualityScore(tier) >= 60 THEN 1500 ELSE 2500

\* (dependency - 30) / 10 * m * 3, in units of 10^-7
RefExcessPenalty(dependency, tier) == (dependency - Units(30)) * RefMultiplier(tier) * 3

RefRiskLevel(dependency, tier) ==
    CASE tier = "None" \/ (dependency < Units(15) /\ RefQualityScore(tier) >= 65) -> "LOW"
      [] OTHER ->
           CASE dependency < Units(30) /\ RefQualityScore(tier) >= 65 -> "MODERATE"
             [] OTHER ->
                  CASE tier = "Unverified" \/ dependency > Units(50) -> "HIGH"
                    [] OTHER -> "MODERATE"

\* what the rules fix besides the penalty above the threshold
RefOffsetRules(dependency, tier) ==
    /\ eng_result["quality_score"] = RefQualityScore(tier)
    /\ eng_result["risk_level"] = RefRiskLevel(dependency, tier)
    /\ eng_result["dependency_penalty"] >= 0
    /\ eng_result["dependency_penalty"] <= Units(20)
    /\ (tier = "None" \/ dependency <= Units(30)) => eng_result["dependency_penalty"] = 0

OffsetCallInRange ==
    /\ Returned("analyze_offsets")
    /\ eng_call.args[1] >= 0
    /\ eng_call.args[1] <= Units(100)

\* C14 as stated: the penalty above the threshold is min((dependency - 30) /
\* 10 * m * 3, 20) itself
C14_OffsetRulesUnrounded ==
    OffsetCallInRange =>
        /\ RefOffsetRules(eng_call.args[1], eng_call.args[2])
        /\ (eng_call.args[2] # "None" /\ eng_call.args[1] > Units(30))
             => eng_result["dependency_penalty"] * 10000 =
                  Min(RefExcessPenalty(eng_call.args[1], eng_call.args[2]),
                      Units(20) * 10000)

\* C14: for every dependency between 0 and 100 and every tier, analyze_offsets
\* returns the quality_score 90/65/25/100 for Gold Standard/VCS/Unverified/None
\* (25 for an unrecognised tier); a dependency_penalty of 0 for the tier None
\* or a dependency of at most 30, and otherwise the smaller of 20 and
\* (dependency - 30) / 10 * m * 3 rounded to one decimal, with m = 1.0 for a
\* quality_score of at least 80, 1.5 for at least 60, else 2.5, so that it
\* lies between 0 and 20; and the risk_level LOW for the tier None or
\* (dependency < 15 and quality_score >= 65), else MODERATE for dependency <
\* 30 and quality_score >= 65, else HIGH for the tier Unverified or
\* dependency > 50, else MODERATE
C14_OffsetRules ==
    OffsetCallInRange =>
        /\ RefOffsetRules(eng_call.args[1], eng_call.args[2])
        /\ (eng_call.args[2] # "None" /\ eng_call.args[1] > Units(30))
             => \E r \in Nearest(RefExcessPenalty(eng_call.args[1], eng_call.args[2]),
                                 10000, 100) :
                   eng_result["dependency_penalty"] = Min(r, Units(20))

\* a dependency of 30.5 on Gold Standard offsets: the penalty is 0.2, not the
\* 0.15 of the unrounded product, and the risk is MODERATE
C14_Witness ==
    /\ Returned("analyze_offsets")
    /\ eng_call.args = <<30500, "Gold Standard">>
    /\ eng_result["quality_score"] = 90
    /\ eng_result["dependency_penalty"] = 200
    /\ eng_result["risk_level"] = "MODERATE"

-----------------------------------------------------------------------------
(* Properties of compute_investor_esg_index (checked under SpecEngine) *)

\* max(0, lts + p), with p = 0 for LOW, -5 for MODERATE, -15 for HIGH and 0
\* for any other level
RefAdjusted(lts, level) ==
    Max(0, lts + (CASE level = "MODERATE" -> Units(-5)
                    [] level = "HIGH" -> Units(-15)
                    [] OTHER -> 0))

\* the letter of the fixed bands
RefRating(score) ==
    CASE score >= Units(75) -> "AAA"
      [] score < Units(75) /\ score >= Units(60) -> "AA"
      [] score < Units(60) /\ score >= Units(45) -> "BBB"
      [] score < Units(45) /\ score >= Units(30) -> "BB"
      [] OTHER -> "CCC"

EsgCallInRange ==
    /\ Returned("compute_investor_esg_index")
    /\ eng_call.args[1] >= 0
    /\ eng_call.args[1] <= Units(100)

\* in a compute_lts result the ESG score lies between 0 and 100 and does not
\* exceed the lts
EsgWithinLts ==
    Returned("compute_lts") =>
        /\ eng_result.esg_investor_index.score >= 0
        /\ eng_result.esg_investor_index.score <= Units(100)
        /\ eng_result.esg_investor_index.score <= eng_result.lts

\* C15 as stated: the score returned is max(0, lts + p) itself, and the
\* rating is the band of that score
C15_EsgIndexUnrounded ==
    /\ EsgCallInRange =>
         /\ eng_result.score = RefAdjusted(eng_call.args[1], eng_call.args[2])
         /\ eng_result.rating = RefRating(eng_result.score)
    /\ EsgWithinLts

\* C15: for every lts between 0 and 100 and every offset risk level,
\* compute_investor_esg_index returns as score max(0, lts + p) rounded to one
\* decimal, with p = 0 for LOW, -5 for MODERATE, -15 for HIGH, and as rating
\* the band of max(0, lts + p) before rounding: AAA from 75, AA from 60, BBB
\* from 45, BB from 30, else CCC.  For an lts of at most one decimal, as
\* compute_lts passes, the score is max(0, lts + p) itself and the rating is
\* the band of the score; hence in every compute_lts result the ESG score
\* lies between 0 and 100 and never exceeds lts
C15_EsgIndex ==
    /\ EsgCallInRange =>
         /\ eng_result.score \in
              Nearest(RefAdjusted(eng_call.args[1], eng_call.args[2]), 1, 100)
         /\ eng_result.rating =
              RefRating(RefAdjusted(eng_call.args[1], eng_call.args[2]))
         /\ eng_call.args[1] % 100 = 0 =>
              /\ eng_result.score = RefAdjusted(eng_call.args[1], eng_call.args[2])
              /\ eng_result.rating = RefRating(eng_result.score)
    /\ EsgWithinLts

\* an lts of 79.95 at MODERATE risk: the score returned is 75.0, whose band
\* is AAA, and the rating is the AA of 74.95
C15_Witness ==
    /\ Returned("compute_investor_esg_index")
    /\ eng_call.args = <<79950, "MODERATE">>
    /\ eng_result = [score |-> Units(75), rating |-> "AA"]

\* a record at HIGH offset risk whose lts is below 15: its ESG score is 0
C15_WitnessLts ==
    /\ Returned("compute_lts")
    /\ eng_result.offset_analysis.risk_level = "HIGH"
    /\ eng_result.lts > 0
    /\ eng_result.lts < Units(15)
    /\ eng_result.esg_investor_index.score = 0

-----------------------------------------------------------------------------
(* Properties of extract_and_classify_claims and _fallback_claims_from_lines
   (checked under SpecEngine) *)

\* the sentences of a text, stripped
StrippedSentences(text) ==
    LET Stripped(sentences) == [i \in DOMAIN sentences |-> Strip(sentences[i])]
    IN  Stripped(SplitSentences(Strip(text)))

\* the lines of a text, their runs of whitespace made one space each
NormalisedLines(text) ==
    LET Normalised(lines) == [i \in DOMAIN lines |-> Join(SplitWords(lines[i]), " ")]
    IN  Normalised(splitlines(text))

\* the first `most` of the items of at least `least` characters, classified
ClassifiedFrom(items, least, most) ==
    LET First(kept) == [i \in 1..Min(Len(kept), most) |-> ClaimOf(kept[i])]
    IN  First(SelectSeq(items, LAMBDA item : Len(item) >= least))

\* the fallback keeps the normalised lines of 28 characters or more, in
\* order, and stops at 120 claims
FallbackKeepsFrom28 ==
    Returned("_fallback_claims_from_lines") =>
        eng_result = ClassifiedFrom(NormalisedLines(eng_call.args[1]), 28, 120)

\* extract_and_classify_claims keeps the sentences of 21 characters or more
ExtractKeepsFrom21 ==
    Returned("extract_and_classify_claims") =>
        eng_result = ClassifiedFrom(StrippedSentences(eng_call.args[1]), 21,
                                    Len(eng_call.args[1]))

\* C16: extract_and_classify_claims discards exactly the sentences shorter
\* than 20 characters and classifies every sentence of 20 characters or more;
\* _fallback_claims_from_lines discards exactly the whitespace-normalised
\* lines shorter than 28 characters and classifies the others, stopping
\* after 120 claims
C16_DiscardsShorterOnly ==
    /\ Returned("extract_and_classify_claims") =>
          eng_result = ClassifiedFrom(StrippedSentences(eng_call.args[1]), 20,
                                      Len(eng_call.args[1]))
    /\ FallbackKeepsFrom28

\* the one sentence "Net zero is the aim.", of 20 characters, is discarded
C16_Witness ==
    /\ Returned("extract_and_classify_claims")
    /\ eng_call.args[1] = "Net zero is the aim."
    /\ Len(eng_call.args[1]) = 20
    /\ eng_result = <<>>

\* of 125 lines of 40 characters the fallback returns the first 120
FallbackStopsAt120 ==
    /\ Returned("_fallback_claims_from_lines")
    /\ Len(splitlines(eng_call.args[1])) = 125
    /\ Len(eng_result) = 120

-----------------------------------------------------------------------------
(* The routes of the application together (SpecRoutes): a process that
   serves the GET routes from the dataset, or one upload to
   POST /api/analyze-pdf.  The upload handler neither reads nor writes the
   cached company list, so the two are followed apart. *)

RoutesInit == AppInit \/ PdfInit

RoutesNext ==
    \/ pdf_pc = "off" /\ AppNext
    \/ pdf_pc # "off" /\ PdfNext

SpecRoutes == RoutesInit /\ [][RoutesNext]_vars

-----------------------------------------------------------------------------
(* Properties of the temporal drift of the records the program builds
   (checked under SpecRoutes) *)

\* GET /api/analyze has answered with the analysis of a record built from
\* the rows of the dataset
CsvAnalysed ==
    /\ AnalyzeAnswered
    /\ app_response.status = 200
    /\ \E i \in RequestedCompanies : app_loaded[i].from_csv

\* POST /api/analyze-pdf has answered with the analysis of its synthetic record
PdfAnalysed == pdf_pc = "done" /\ pdf_response.status = 200

SixPillars == {PILLARS[i] : i \in DOMAIN PILLARS}

\* every pillar of the drift lost exactly `step` points since the prior year,
\* the delta reported is `step` and the trend is one of `trends`
DriftBy(drift, step, trends) ==
    /\ DOMAIN drift = SixPillars
    /\ \A p \in SixPillars :
         /\ drift[p].previous = drift[p].current - Units(step)
         /\ drift[p].delta = Units(step)
         /\ drift[p].trend \in trends

\* C17: no record the program builds itself is reported as "declined" in any
\* pillar.  For an uploaded PDF every pillar score lies between 22 and 95,
\* the prior score is exactly 4 lower, the delta is 4 and the trend is
\* "improved"; for a record built from the dataset the prior score of every
\* pillar is the current one less 2 + bucket mod 5, the delta lies between 2
\* and 6 and the trend is "stable" or "improved"
C17_NeverDeclined ==
    /\ PdfAnalysed =>
         /\ DriftBy(pdf_response.body["temporal_drift"], 4, {"improved"})
         /\ \A p \in SixPillars :
              /\ pdf_response.body["temporal_drift"][p].current >= Units(22)
              /\ pdf_response.body["temporal_drift"][p].current <= Units(95)
    /\ CsvAnalysed =>
         LET step == 2 + (_hash_bucket(app_response.body["company"], 40) % 5)
         IN  /\ step \in 2..6
             /\ DriftBy(app_response.body["temporal_drift"], step,
                        IF step = 2 THEN {"stable", "improved"} ELSE {"improved"})

\* Tesla, whose bucket is 25, analysed from the dataset: every pillar is 2
\* above its prior score and the use phase, at 80.5 against 78.5, is stable
C17_Witness ==
    /\ CsvAnalysed
    /\ app_response.body["company"] = "Tesla"
    /\ _hash_bucket("Tesla", 40) = 25
    /\ app_response.body["temporal_drift"]["use_phase"] =
         [current |-> 80500, previous |-> 78500, delta |-> Units(2), trend |-> "stable"]

\* an uploaded report that names no pillar keyword: every pillar at 22
\* against 18, improved
C17_WitnessPdf ==
    /\ PdfAnalysed
    /\ \A p \in SixPillars :
         pdf_response.body["temporal_drift"][p] =
           [current |-> Units(22), previous |-> Units(18), delta |-> Units(4),
            trend |-> "improved"]

-----------------------------------------------------------------------------
(* The domain verdict in POST /api/analyze-pdf (checked under SpecPdf) *)

\* the bodies without their domain_detection
WithoutDomain(bodies) ==
    {[k \in DOMAIN body \ {"domain_detection"} |-> body[k]] : body \in bodies}

\* the verdict turned round, and the verdict a mention of a known company in
\* the file name would give or take away
OtherVerdicts(info, full_text) ==
    {[info EXCEPT !.is_ev_domain = ~info.is_ev_domain,
                  !.recommendation = "", !.ev_relevance_score = 0]}
    \cup {_detect_ev_domain(full_text, name) : name \in {"report.pdf", "Tesla-2023.PDF"}}

\* C18: in POST /api/analyze-pdf the domain verdict only annotates the
\* response and never gates it.  A request that passes the file checks and
\* yields at least one claim is answered with a complete LTS result whether
\* is_ev_domain is True or False, the verdict sits under domain_detection,
\* and with any other verdict in its place every other field of the response
\* would be the same
C18_DomainOnlyAnnotates ==
    (pdf_pc = "done" /\ FirstFailure(pdf_upload) = "") =>
        /\ pdf_response.status = 200
        /\ LtsResultKeys \subseteq DOMAIN pdf_response.body
        /\ pdf_response.body["domain_detection"] =
             _detect_ev_domain(pdf_locals["full_text"], pdf_upload.filename)
        /\ pdf_locals["claims"] = pdf_claims(pdf_locals["full_text"]).claims
        /\ WithoutDomain({pdf_response.body})
             \subseteq WithoutDomain(pdf_result(pdf_upload.filename, pdf_locals))
        /\ \A info \in OtherVerdicts(pdf_locals["domain_info"], pdf_locals["full_text"]) :
             WithoutDomain(pdf_result(pdf_upload.filename,
                                      Put(pdf_locals, "domain_info", info)))
               = WithoutDomain(pdf_result(pdf_upload.filename, pdf_locals))

\* a report found not to be about electric vehicles is analysed all the same
C18_Witness ==
    /\ pdf_pc = "done"
    /\ FirstFailure(pdf_upload) = ""
    /\ pdf_response.status = 200
    /\ ~pdf_response.body["domain_detection"].is_ev_domain
    /\ LtsResultKeys \subseteq DOMAIN pdf_response.body
    /\ pdf_response.body["claims_extracted"] >= 1

\* a report found to be about electric vehicles, analysed
C18_WitnessEv ==
    /\ pdf_pc = "done"
    /\ FirstFailure(pdf_upload) = ""
    /\ pdf_response.status = 200
    /\ pdf_response.body["domain_detection"].is_ev_domain
    /\ LtsResultKeys \subseteq DOMAIN pdf_response.body

=============================================================================
